---------------------------- MODULE Spec2Model ----------------------------
(***************************************************************************)
(* Model of the command interpreter of "Assignment 2": the token parser    *)
(* (parser.c), the command structures and the execution engine (command.c),*)
(* the builtins and the process runner (shell_builtins.c) and the main     *)
(* loop with its SIGCHLD handler (main.c).                                 *)
(*                                                                         *)
(* A C string is a sequence of one-character strings; the NULL pointer is  *)
(* a value no string equals.  A file descriptor is a number, the           *)
(* descriptor table of a process maps it to what it refers to.             *)
(***************************************************************************)
EXTENDS Integers, Sequences, FiniteSets, TLC

(***************************************************************************)
(* Bounds of the model.                                                    *)
(***************************************************************************)
\* longest token array handed to the parser (terminator not counted)
MaxTokens == 5
\* size of the descriptor table of a process (descriptors 0 .. FdLimit-1)
FdLimit == 8

(***************************************************************************)
(* Strings and tokens.                                                     *)
(***************************************************************************)
NULL == <<"NULL">>
IS_NULL(token) == token = NULL

STDIN_FD == 0
STDOUT_FD == 1
STDERR_FD == 2
PIPE_READ_END == 0
PIPE_WRITE_END == 1

\* the strings the model's lines are made of
S_a == <<"a">>
S_f == <<"f">>
S_pwd == <<"p", "w", "d">>
S_cd == <<"c", "d">>
S_exit == <<"e", "x", "i", "t">>
S_prompt == <<"p", "r", "o", "m", "p", "t">>
S_history == <<"h", "i", "s", "t", "o", "r", "y">>
S_bang1 == <<"!", "1">>
S_bang9 == <<"!", "9">>
S_bang0 == <<"!", "0">>
S_bang2 == <<"!", "2">>
S_banga == <<"!", "a">>
S_bang == <<"!">>
S_bangq == <<"!", "\"", "1", "\"">>
S_qf == <<"\"", "f", "\"">>
S_pipe == <<"|">>
S_gt == <<">">>
S_gtgt == <<">", ">">>
S_lt == <<"<">>
S_2gt == <<"2", ">">>
S_semi == <<";">>
S_amp == <<"&">>
S_and == <<"&", "&">>
S_or == <<"|", "|">>
S_empty == <<>>

\* COMPARE_TOKEN(token, string): token && strcmp(token, string) == 0
COMPARE_TOKEN(token, string) == token # NULL /\ token = string

(***************************************************************************)
(* Lexical classifier (the macros of the headers).                         *)
(***************************************************************************)
IS_PIPE(token) == COMPARE_TOKEN(token, S_pipe)
IS_APPEND(token) == COMPARE_TOKEN(token, S_gtgt)
IS_FILE_OUT_REDIR(token) == COMPARE_TOKEN(token, S_gt) \/ COMPARE_TOKEN(token, S_gtgt)
IS_FILE_IN_REDIR(token) == COMPARE_TOKEN(token, S_lt)
IS_STDERR_REDIR(token) == COMPARE_TOKEN(token, S_2gt)
IS_BACKGROUND(token) == COMPARE_TOKEN(token, S_amp)
IS_CHAINING_OPERATOR(token) ==
    \/ COMPARE_TOKEN(token, S_semi)
    \/ COMPARE_TOKEN(token, S_amp)
    \/ COMPARE_TOKEN(token, S_and)
    \/ COMPARE_TOKEN(token, S_or)
IGNORE(token) == COMPARE_TOKEN(token, S_empty)
\* strdup of a string, NULL of NULL
COPY(token) == token

\* tokens[i] of a NULL-terminated array (C index i, 0-based)
Tok(tokens, i) == IF i + 1 <= Len(tokens) THEN tokens[i + 1] ELSE NULL


(***************************************************************************)
(* Descriptor tables and the file system.                                  *)
(***************************************************************************)
Closed == [kind |-> "closed", name |-> <<>>, id |-> 0]
\* the interpreter's own standard streams
Tty(n) == [kind |-> "tty", name |-> <<>>, id |-> n]
PipeEnd(end, n) == [kind |-> IF end = PIPE_READ_END THEN "pipeR" ELSE "pipeW",
                    name |-> <<>>, id |-> n]
\* mode: "r" (O_RDONLY), "w" (O_WRONLY|O_CREAT|O_TRUNC), "a" (O_WRONLY|O_CREAT|O_APPEND)
FileDesc(mode, name) == [kind |-> "file", name |-> name,
                         id |-> CASE mode = "r" -> 0 [] mode = "w" -> 1 [] OTHER -> 2]

Fds == 0 .. (FdLimit - 1)
InitFdt == [fd \in Fds |-> IF fd <= STDERR_FD THEN Tty(fd) ELSE Closed]
FreeFds(fdt) == {fd \in Fds : fdt[fd] = Closed}
\* the lowest free descriptor, -1 when the table is full (EMFILE)
LowestFree(fdt) ==
    IF FreeFds(fdt) = {} THEN -1
    ELSE CHOOSE fd \in FreeFds(fdt) : \A g \in FreeFds(fdt) : fd <= g
\* close(fd): EBADF on a closed or invalid descriptor leaves the table as it is
CloseFd(fdt, fd) == IF fd \in Fds THEN [fdt EXCEPT ![fd] = Closed] ELSE fdt

(***************************************************************************)
(* command.c: initializers and push functions.                             *)
(***************************************************************************)
initSimpleCommand ==
    [commandName |-> NULL, args |-> <<>>, argc |-> 0,
     inputFD |-> STDIN_FD, outputFD |-> STDOUT_FD, stderrFD |-> STDERR_FD,
     noWait |-> 0, execute |-> "NULL", pid |-> -1]

initCommand ==
    [simpleCommands |-> <<>>, nSimpleCommands |-> 0, background |-> FALSE,
     chainingOperator |-> NULL]

\* the chain is the list head .. tail, in link order
initCommandChain == <<>>

addCommandToChain(chain, command) == Append(chain, command)

addSimpleCommand(command, simpleCommand) ==
    [command EXCEPT !.simpleCommands = Append(@, simpleCommand),
                    !.nSimpleCommands = @ + 1]

\* variant: every argument is written over the first one
pushArgsOverwrites(arg, simpleCommand) ==
    [simpleCommand EXCEPT
        !.args = <<COPY(arg), NULL>>,
        !.argc = @ + 1,
        !.commandName = IF simpleCommand.argc = 0 THEN COPY(arg) ELSE @]

\* variant: every pushed argument becomes the command name
pushArgsRenames(arg, simpleCommand) ==
    [simpleCommand EXCEPT
        !.args = SubSeq(@, 1, simpleCommand.argc) \o <<COPY(arg), NULL>>,
        !.argc = @ + 1,
        !.commandName = COPY(arg)]

\* args[argc] = COPY(arg); args[argc + 1] = NULL; argc++; the first argument is
\* also the command name
pushArgs(arg, simpleCommand) ==
    LET grown == SubSeq(simpleCommand.args, 1, simpleCommand.argc)
                    \o <<COPY(arg), NULL>>
        argc == simpleCommand.argc + 1
    IN  [simpleCommand EXCEPT
            !.args = grown,
            !.argc = argc,
            !.commandName = IF argc = 1 THEN COPY(arg) ELSE @]

(***************************************************************************)
(* shell_builtins.c: the registry of builtins.                             *)
(***************************************************************************)
commandRegistry ==
    {<<S_cd, "cd">>, <<S_pwd, "pwd">>, <<S_exit, "exitShell">>,
     <<S_history, "history">>, <<S_prompt, "prompt">>}

\* variant: every name is bound to the runner of external programs
getExecutionFunctionExternal(commandName) == "executeProcess"

getExecutionFunction(commandName) ==
    IF \E e \in commandRegistry : e[1] = commandName
    THEN (CHOOSE e \in commandRegistry : e[1] = commandName)[2]
    ELSE "executeProcess"

(***************************************************************************)
(* parser.c: parseTokens.  The parse state ps holds the locals of          *)
(* parseTokens (chain, command, simpleCommand, currentIndexInTokens), the  *)
(* process's descriptor table and the file system it acts on, and the      *)
(* count of the structures that are allocated and not freed.               *)
(***************************************************************************)
SumStages(chain) ==
    LET RECURSIVE Sum(_)
        Sum(i) == IF i > Len(chain) THEN 0
                  ELSE chain[i].nSimpleCommands + Sum(i + 1)
    IN  Sum(1)

\* cleanUpSimpleCommand: frees the strings and the structure; closes nothing
cleanUpSimpleCommand(ps) ==
    IF ps.hasSimple
    THEN [ps EXCEPT !.liveSimple = @ - 1, !.hasSimple = FALSE]
    ELSE ps

\* cleanUpCommand: frees the stages of the command and its operator, not the
\* command structure itself ("handled by the chain cleanup")
cleanUpCommand(ps) ==
    [ps EXCEPT !.liveSimple = @ - ps.command.nSimpleCommands,
               !.command = initCommand]

\* cleanUpCommandChain: cleanUpCommand and free of every link, free of the chain
cleanUpCommandChain(ps) ==
    [ps EXCEPT !.liveSimple = @ - SumStages(ps.chain),
               !.liveCommand = @ - Len(ps.chain),
               !.liveChain = @ - 1,
               !.chain = <<>>]

\* variant: the rejection hands the caller the chain it has
ReturnNullKeepsChain(ps) == [ps EXCEPT !.result = "rejected"]

\* return NULL: the caller gets no chain
ReturnNull(ps) == [ps EXCEPT !.result = "rejected", !.isNull = TRUE]

\* the common rejection: cleanUpCommandChain(chain); cleanUpCommand(command);
\* cleanUpSimpleCommand(simpleCommand); return NULL
RejectAll(ps) ==
    ReturnNull(cleanUpSimpleCommand(cleanUpCommand(cleanUpCommandChain(ps))))

\* the rejection of the failed open of '<' and '2>': cleanUpCommandChain(chain);
\* return NULL
RejectChainOnly(ps) == ReturnNull(cleanUpCommandChain(ps))

\* variant: the stage after a pipe operator does not read from the pipe
ParsePipeUnlinked(tokens, ps) ==
    IF ps.simpleCommand.commandName = NULL THEN RejectAll(ps)
    ELSE IF ps.simpleCommand.outputFD # STDOUT_FD THEN RejectAll(ps)
    ELSE LET rd == LowestFree(ps.fdt)
             wr == IF rd = -1 THEN -1
                   ELSE LowestFree([ps.fdt EXCEPT ![rd] = PipeEnd(PIPE_READ_END, ps.nextPipe)])
         IN  IF rd = -1 \/ wr = -1 THEN RejectAll(ps)
             ELSE [ps EXCEPT
                      !.fdt = [@ EXCEPT ![rd] = PipeEnd(PIPE_READ_END, ps.nextPipe),
                                        ![wr] = PipeEnd(PIPE_WRITE_END, ps.nextPipe)],
                      !.nextPipe = @ + 1,
                      !.opened = @ \cup {rd, wr},
                      !.command = addSimpleCommand(@,
                          [ps.simpleCommand EXCEPT
                              !.outputFD = wr,
                              !.execute = getExecutionFunction(ps.simpleCommand.commandName)]),
                      !.simpleCommand = initSimpleCommand,
                      !.liveSimple = @ + 1]

\* pipe(pipeFD): the two lowest free descriptors, or -1
ParsePipe(tokens, ps) ==
    IF ps.simpleCommand.commandName = NULL THEN RejectAll(ps)
    ELSE IF ps.simpleCommand.outputFD # STDOUT_FD THEN RejectAll(ps)
    ELSE LET rd == LowestFree(ps.fdt)
             wr == IF rd = -1 THEN -1
                   ELSE LowestFree([ps.fdt EXCEPT ![rd] = PipeEnd(PIPE_READ_END, ps.nextPipe)])
         IN  IF rd = -1 \/ wr = -1 THEN RejectAll(ps)
             ELSE LET committed ==
                          [ps.simpleCommand EXCEPT
                              !.outputFD = wr,
                              !.execute = getExecutionFunction(ps.simpleCommand.commandName)]
                  IN  [ps EXCEPT
                          !.fdt = [@ EXCEPT ![rd] = PipeEnd(PIPE_READ_END, ps.nextPipe),
                                            ![wr] = PipeEnd(PIPE_WRITE_END, ps.nextPipe)],
                          !.nextPipe = @ + 1,
                          !.opened = @ \cup {rd, wr},
                          !.command = addSimpleCommand(@, committed),
                          !.simpleCommand = [initSimpleCommand EXCEPT !.inputFD = rd],
                          !.liveSimple = @ + 1]

\* do { fileNameToken = tokens[++currentIndexInTokens]; } while (IGNORE(fileNameToken));
RECURSIVE SkipToFileName(_, _)
SkipToFileName(tokens, i) ==
    IF IGNORE(Tok(tokens, i + 1)) THEN SkipToFileName(tokens, i + 1) ELSE i + 1

\* open(name, flags, 0644): the descriptor, or -1.  mode "r" needs the file;
\* the NULL name (EFAULT), the empty name (ENOENT) and a full table fail
OpenFails(ps, name, mode) ==
    \/ name = NULL
    \/ name = S_empty
    \/ mode = "r" /\ name \notin ps.fs
    \/ LowestFree(ps.fdt) = -1

\* variant: the descriptor is made, the file is not
OpenedKeepsFiles(ps, name, mode) ==
    LET fd == LowestFree(ps.fdt)
    IN  [ps EXCEPT !.fdt = [@ EXCEPT ![fd] = FileDesc(mode, name)],
                   !.opened = @ \cup {fd}]

Opened(ps, name, mode) ==
    LET fd == LowestFree(ps.fdt)
    IN  [ps EXCEPT !.fdt = [@ EXCEPT ![fd] = FileDesc(mode, name)],
                   !.fs = IF mode = "r" THEN @ ELSE @ \cup {name},
                   !.truncated = IF mode = "w" THEN @ \cup {name} ELSE @,
                   !.opened = @ \cup {fd}]

ParseOutRedir(tokens, ps) ==
    IF ps.simpleCommand.commandName = NULL THEN RejectAll(ps)
    ELSE IF ps.simpleCommand.outputFD # STDOUT_FD THEN RejectAll(ps)
    ELSE LET isAppend == IS_APPEND(Tok(tokens, ps.idx))
             at == SkipToFileName(tokens, ps.idx)
             fileNameToken == Tok(tokens, at)
             mode == IF isAppend THEN "a" ELSE "w"
             q == [ps EXCEPT !.idx = at]
         IN  IF OpenFails(q, fileNameToken, mode) THEN RejectAll(q)
             ELSE LET o == Opened(q, fileNameToken, mode)
                  IN  [o EXCEPT !.simpleCommand.outputFD = LowestFree(q.fdt)]

\* variant: an input redirection rebinds an input that is bound
ParseInRedirRebinds(tokens, ps) ==
    LET at == SkipToFileName(tokens, ps.idx)
        fileNameToken == Tok(tokens, at)
        q == [ps EXCEPT !.idx = at]
    IN  IF OpenFails(q, fileNameToken, "r") THEN RejectChainOnly(q)
        ELSE LET o == Opened(q, fileNameToken, "r")
             IN  [o EXCEPT !.simpleCommand.inputFD = LowestFree(q.fdt)]

ParseInRedir(tokens, ps) ==
    IF ps.simpleCommand.inputFD # STDIN_FD THEN RejectAll(ps)
    ELSE LET at == SkipToFileName(tokens, ps.idx)
             fileNameToken == Tok(tokens, at)
             q == [ps EXCEPT !.idx = at]
         IN  IF OpenFails(q, fileNameToken, "r") THEN RejectChainOnly(q)
             ELSE LET o == Opened(q, fileNameToken, "r")
                  IN  [o EXCEPT !.simpleCommand.inputFD = LowestFree(q.fdt)]

ParseErrRedir(tokens, ps) ==
    IF ps.simpleCommand.stderrFD # STDERR_FD THEN RejectAll(ps)
    ELSE LET at == SkipToFileName(tokens, ps.idx)
             fileNameToken == Tok(tokens, at)
             q == [ps EXCEPT !.idx = at]
         IN  IF OpenFails(q, fileNameToken, "w") THEN RejectChainOnly(q)
             ELSE LET o == Opened(q, fileNameToken, "w")
                  IN  [o EXCEPT !.simpleCommand.stderrFD = LowestFree(q.fdt)]

\* removeQuotes (utils): the token without its quote characters
removeQuotes(token) == SelectSeq(token, LAMBDA c : c \notin {"\"", "'"})

\* glob(token, GLOB_NOCHECK | GLOB_TILDE) of a token that holds no wildcard
\* and no tilde (no string of the model does): gl_pathv is the token itself
globPathv(token, fs) == <<token>>

\* variant: a '!' word is rewritten wherever it stands in its stage
IsBangAnywhere(token, simpleCommand) ==
    /\ Len(token) > 1
    /\ token[1] = "!"

\* the '!' word that opens a stage: pushArgs("history"), pushArgs(token + 1)
IsBang(token, simpleCommand) ==
    /\ simpleCommand.commandName = NULL
    /\ Len(token) > 1
    /\ token[1] = "!"

ParseBang(tokens, ps) ==
    LET token == Tok(tokens, ps.idx)
    IN  [ps EXCEPT !.simpleCommand =
            pushArgs(SubSeq(token, 2, Len(token)), pushArgs(S_history, @))]

RECURSIVE PushAll(_, _, _)
PushAll(pathv, i, simpleCommand) ==
    IF i > Len(pathv) THEN simpleCommand
    ELSE PushAll(pathv, i + 1, pushArgs(pathv[i], simpleCommand))

ParseWord(tokens, ps) ==
    LET token == removeQuotes(Tok(tokens, ps.idx))
    IN  [ps EXCEPT !.simpleCommand = PushAll(globPathv(token, ps.fs), 1, @)]

\* one pass of the body of the for loop (parser.c 48-280); its first branch,
\* on a NULL token, is never taken: the loop condition excludes NULL
ProcessToken(tokens, ps) ==
    LET token == Tok(tokens, ps.idx)
    IN  CASE IS_PIPE(token) -> ParsePipe(tokens, ps)
          [] IS_FILE_OUT_REDIR(token) -> ParseOutRedir(tokens, ps)
          [] IS_FILE_IN_REDIR(token) -> ParseInRedir(tokens, ps)
          [] IS_STDERR_REDIR(token) -> ParseErrRedir(tokens, ps)
          [] IGNORE(token) -> ps
          [] IsBang(token, ps.simpleCommand) -> ParseBang(tokens, ps)
          [] OTHER -> ParseWord(tokens, ps)

\* for (; !IS_NULL(tokens[i]) && !IS_CHAINING_OPERATOR(tokens[i]); i++)
RECURSIVE InnerLoop(_, _)
InnerLoop(tokens, ps) ==
    LET token == Tok(tokens, ps.idx)
    IN  IF IS_NULL(token) \/ IS_CHAINING_OPERATOR(token) THEN ps
        ELSE LET q == ProcessToken(tokens, ps)
             IN  IF q.result # "running" THEN q
                 ELSE InnerLoop(tokens, [q EXCEPT !.idx = @ + 1])

\* variant: the background flag is left as addCommand set it
CloseCommandForeground(tokens, ps) ==
    LET token == Tok(tokens, ps.idx)
        commit == ps.hasSimple /\ ps.simpleCommand.commandName # NULL
        withLast == IF commit
                    THEN addSimpleCommand(ps.command,
                            [ps.simpleCommand EXCEPT
                                !.execute = getExecutionFunction(ps.simpleCommand.commandName)])
                    ELSE ps.command
        command == [withLast EXCEPT !.chainingOperator = COPY(token)]
    IN  [ps EXCEPT !.chain = addCommandToChain(@, command),
                   !.command = initCommand,
                   !.simpleCommand = initSimpleCommand,
                   !.hasSimple = FALSE,
                   !.idx = IF token # NULL THEN @ + 1 ELSE @]

\* parser.c 283-304: the last stage is committed when it has a name, the
\* command takes the token that ended it and is added to the chain
CloseCommand(tokens, ps) ==
    LET token == Tok(tokens, ps.idx)
        commit == ps.hasSimple /\ ps.simpleCommand.commandName # NULL
        withLast == IF commit
                    THEN addSimpleCommand(ps.command,
                            [ps.simpleCommand EXCEPT
                                !.execute = getExecutionFunction(ps.simpleCommand.commandName)])
                    ELSE ps.command
        command == [withLast EXCEPT
                       !.chainingOperator = COPY(token),
                       !.background = IF IS_BACKGROUND(COPY(token)) THEN TRUE ELSE @]
    IN  [ps EXCEPT !.chain = addCommandToChain(@, command),
                   !.command = initCommand,
                   !.simpleCommand = initSimpleCommand,
                   !.hasSimple = FALSE,
                   !.idx = IF token # NULL THEN @ + 1 ELSE @]

\* variant: the close of a command leaves the index on the operator
OuterPassStays(tokens, ps) ==
    LET started == [ps EXCEPT !.command = initCommand,
                              !.liveCommand = @ + 1,
                              !.simpleCommand = initSimpleCommand,
                              !.hasSimple = TRUE,
                              !.liveSimple = @ + 1]
        q == InnerLoop(tokens, started)
    IN  IF q.result # "running" THEN q
        ELSE [CloseCommand(tokens, q) EXCEPT !.idx = q.idx]

\* parser.c 26-304, one pass of the outer loop: a command and a stage are
\* made, the inner loop runs, and the command is closed
OuterPass(tokens, ps) ==
    LET started == [ps EXCEPT !.command = initCommand,
                              !.liveCommand = @ + 1,
                              !.simpleCommand = initSimpleCommand,
                              !.hasSimple = TRUE,
                              !.liveSimple = @ + 1]
        q == InnerLoop(tokens, started)
    IN  IF q.result # "running" THEN q
        ELSE CloseCommand(tokens, q)

\* while (tokens[currentIndexInTokens] != NULL)
RECURSIVE OuterLoop(_, _)
OuterLoop(tokens, ps) ==
    IF Tok(tokens, ps.idx) = NULL THEN [ps EXCEPT !.result = "ok"]
    ELSE LET q == OuterPass(tokens, ps)
         IN  IF q.result # "running" THEN q
             ELSE OuterLoop(tokens, q)

\* parser.c 15-22: the empty chain and the index 0, in a process whose
\* descriptor table is fdt, on the file system fs; nextPipe numbers the pipes
\* the kernel creates
ParseStart(fdt, fs, nextPipe) ==
    [idx |-> 0, chain |-> initCommandChain, command |-> initCommand,
     simpleCommand |-> initSimpleCommand, hasSimple |-> FALSE,
     fdt |-> fdt, fs |-> fs, truncated |-> {}, nextPipe |-> nextPipe,
     opened |-> {}, liveChain |-> 1, liveCommand |-> 0, liveSimple |-> 0,
     isNull |-> FALSE, result |-> "running"]

parseTokens(tokens, fdt, fs, nextPipe) ==
    OuterLoop(tokens, ParseStart(fdt, fs, nextPipe))

(***************************************************************************)
(* utils: the tokenizer, and the text of a line.                           *)
(***************************************************************************)
\* the tokens of a line joined by single spaces: the raw line
RECURSIVE Join(_)
Join(toks) ==
    IF toks = <<>> THEN <<>>
    ELSE IF Len(toks) = 1 THEN toks[1]
    ELSE toks[1] \o <<" ">> \o Join(Tail(toks))

\* tokenizeString(input, delimiter): the pieces between the delimiters
RECURSIVE SplitFrom(_, _, _, _)
SplitFrom(input, delimiter, i, piece) ==
    IF i > Len(input) THEN <<piece>>
    ELSE IF input[i] = delimiter
         THEN <<piece>> \o SplitFrom(input, delimiter, i + 1, <<>>)
         ELSE SplitFrom(input, delimiter, i + 1, Append(piece, input[i]))

tokenizeString(input, delimiter) ==
    IF input = <<>> THEN <<>> ELSE SplitFrom(input, delimiter, 1, <<>>)

(***************************************************************************)
(* shell_builtins.c: the history list.                                     *)
(***************************************************************************)
\* variant: the new entry is put at the head of the list
add_to_historyAtHead(list, command) == <<COPY(command)>> \o list

add_to_history(list, command) == Append(list, COPY(command))

\* strspn(arg, "0123456789") == strlen(arg)
Digits == <<"0", "1", "2", "3", "4", "5", "6", "7", "8", "9">>
IsDigit(c) == \E d \in DOMAIN Digits : Digits[d] = c
DigitValue(c) == (CHOOSE d \in DOMAIN Digits : Digits[d] = c) - 1
IsNumeric(arg) == \A i \in DOMAIN arg : IsDigit(arg[i])

\* atoi of a string of digits
RECURSIVE AtoiFrom(_, _, _)
AtoiFrom(arg, i, acc) ==
    IF i > Len(arg) THEN acc
    ELSE AtoiFrom(arg, i + 1, acc * 10 + DigitValue(arg[i]))
atoi(arg) == AtoiFrom(arg, 1, 0)

\* get_command(list, index): NULL when index > size or the list is empty; the
\* walk from the head stops at the index-th node.  Index 0 walks off the end of
\* a non-empty list and reads through a null pointer: "CRASH"
CRASH == <<"CRASH">>
get_command(list, index) ==
    IF index > Len(list) \/ list = <<>> THEN NULL
    ELSE IF index = 0 THEN CRASH
    ELSE list[index]

\* strncmp(command, prefix, strlen(prefix)) == 0
HasPrefix(command, prefix) ==
    /\ Len(prefix) <= Len(command)
    /\ SubSeq(command, 1, Len(prefix)) = prefix

\* variant: the walk stops at the first node that matches
find_first_command_with_prefix(list, prefix) ==
    LET hits == {i \in DOMAIN list : HasPrefix(list[i], prefix)}
    IN  IF hits = {} THEN NULL
        ELSE list[CHOOSE i \in hits : \A j \in hits : i <= j]

\* find_last_command_with_prefix: the last node of the list that matches
find_last_command_with_prefix(list, prefix) ==
    LET hits == {i \in DOMAIN list : HasPrefix(list[i], prefix)}
    IN  IF hits = {} THEN NULL
        ELSE list[CHOOSE i \in hits : \A j \in hits : j <= i]

(***************************************************************************)
(* shell_builtins.c: setUpFD and resetFD on the process's descriptor       *)
(* table fdt and its save slots (originalStdinFD, originalStdoutFD,        *)
(* originalStderrFD of the shell state).                                   *)
(***************************************************************************)
InitSlots == [in |-> STDIN_FD, out |-> STDOUT_FD, err |-> STDERR_FD]

IsOpen(fdt, fd) == fd \in Fds /\ fdt[fd] # Closed

\* one of the three blocks of setUpFD: slot = dup(std); dup2(fd, std) or
\* return -1; close(fd).  p is [fdt, slots, rc]
OverrideStream(p, fd, std, slot) ==
    IF p.rc # 0 \/ fd = std THEN p
    ELSE LET saved == IF IsOpen(p.fdt, std) THEN LowestFree(p.fdt) ELSE -1
             afterDup == IF saved = -1 THEN p.fdt
                         ELSE [p.fdt EXCEPT ![saved] = p.fdt[std]]
             slots == [p.slots EXCEPT ![slot] = saved]
         IN  IF ~ IsOpen(afterDup, fd)
             THEN [fdt |-> afterDup, slots |-> slots, rc |-> -1]
             ELSE [fdt |-> [afterDup EXCEPT ![std] = afterDup[fd], ![fd] = Closed],
                   slots |-> slots, rc |-> 0]

setUpFD(fdt, slots, inputFD, outputFD, stderrFD) ==
    OverrideStream(
        OverrideStream(
            OverrideStream([fdt |-> fdt, slots |-> slots, rc |-> 0],
                           inputFD, STDIN_FD, "in"),
            outputFD, STDOUT_FD, "out"),
        stderrFD, STDERR_FD, "err")

\* one of the three blocks of resetFD: dup2(slot, std) when the slot is not
\* std, exit(1) when it fails.  p is [fdt, died]
RestoreStream(p, slotFd, std) ==
    IF p.died \/ slotFd = std THEN p
    ELSE IF ~ IsOpen(p.fdt, slotFd) THEN [p EXCEPT !.died = TRUE]
    ELSE [p EXCEPT !.fdt = [@ EXCEPT ![std] = p.fdt[slotFd]]]

resetFD(fdt, slots) ==
    RestoreStream(
        RestoreStream(
            RestoreStream([fdt |-> fdt, died |-> FALSE], slots.in, STDIN_FD),
            slots.out, STDOUT_FD),
        slots.err, STDERR_FD)

(***************************************************************************)
(* shell_builtins.c: the builtins.  Each yields the status it returns, the *)
(* descriptor table and save slots it leaves, and whether the interpreter  *)
(* process ended in it (exit, or a null pointer read).                     *)
(***************************************************************************)
BuiltinResult(status, fdt, slots, exited) ==
    [status |-> status, fdt |-> fdt, slots |-> slots, exited |-> exited]

\* args[i] of the C array (0-based)
Arg(simpleCommand, i) == simpleCommand.args[i + 1]

\* chdir succeeds on the home directory; no name of the model is a directory
cd(simpleCommand, fdt, slots) ==
    IF simpleCommand.argc > 2 THEN BuiltinResult(-1, fdt, slots, FALSE)
    ELSE IF simpleCommand.argc = 1 THEN BuiltinResult(0, fdt, slots, FALSE)
    ELSE BuiltinResult(-1, fdt, slots, FALSE)

pwd(simpleCommand, fdt, slots) ==
    IF simpleCommand.argc > 1 THEN BuiltinResult(-1, fdt, slots, FALSE)
    ELSE LET up == setUpFD(fdt, slots, simpleCommand.inputFD,
                           simpleCommand.outputFD, simpleCommand.stderrFD)
         IN  IF up.rc # 0 THEN BuiltinResult(-1, up.fdt, up.slots, FALSE)
             ELSE LET back == resetFD(up.fdt, up.slots)
                  IN  BuiltinResult(0, back.fdt, up.slots, back.died)

exitShell(simpleCommand, fdt, slots) ==
    IF simpleCommand.argc > 2 THEN BuiltinResult(-1, fdt, slots, FALSE)
    ELSE IF simpleCommand.argc = 1 THEN BuiltinResult(0, fdt, slots, TRUE)
    ELSE IF ~ IsNumeric(Arg(simpleCommand, 1)) THEN BuiltinResult(-1, fdt, slots, FALSE)
    ELSE BuiltinResult(atoi(Arg(simpleCommand, 1)), fdt, slots, TRUE)

prompt(simpleCommand, fdt, slots) ==
    IF simpleCommand.argc = 1 THEN BuiltinResult(-1, fdt, slots, FALSE)
    ELSE IF simpleCommand.argc > 2 THEN BuiltinResult(-1, fdt, slots, FALSE)
    ELSE BuiltinResult(0, fdt, slots, FALSE)

\* history with an argument: the line it fetches (shell_builtins.c 343-366)
historyLookup(simpleCommand, list) ==
    IF IsNumeric(Arg(simpleCommand, 1))
    THEN COPY(get_command(list, atoi(Arg(simpleCommand, 1))))
    ELSE COPY(find_last_command_with_prefix(list, Arg(simpleCommand, 1)))

\* variant: a fetched line that is itself a reference is not re-entered
HistoryReentersGuarded(simpleCommand, fdt, slots, list) ==
    /\ simpleCommand.argc = 2
    /\ setUpFD(fdt, slots, simpleCommand.inputFD, simpleCommand.outputFD,
               simpleCommand.stderrFD).rc = 0
    /\ historyLookup(simpleCommand, list) \notin {NULL, CRASH}
    /\ historyLookup(simpleCommand, list)[1] # "!"

\* history has an argument that fetches a line: the builtin re-enters the
\* parser and the engine
HistoryReenters(simpleCommand, fdt, slots, list) ==
    /\ simpleCommand.argc = 2
    /\ setUpFD(fdt, slots, simpleCommand.inputFD, simpleCommand.outputFD,
               simpleCommand.stderrFD).rc = 0
    /\ historyLookup(simpleCommand, list) \notin {NULL, CRASH}

\* history on the paths that do not re-enter the parser
history(simpleCommand, fdt, slots, list) ==
    IF simpleCommand.argc > 2 THEN BuiltinResult(-1, fdt, slots, FALSE)
    ELSE LET up == setUpFD(fdt, slots, simpleCommand.inputFD,
                           simpleCommand.outputFD, simpleCommand.stderrFD)
         IN  IF up.rc # 0 THEN BuiltinResult(-1, up.fdt, up.slots, FALSE)
             ELSE IF simpleCommand.argc = 1
             THEN LET back == resetFD(up.fdt, up.slots)
                  IN  BuiltinResult(0, back.fdt, up.slots, back.died)
             ELSE IF historyLookup(simpleCommand, list) = CRASH
             THEN BuiltinResult(-1, up.fdt, up.slots, TRUE)
             ELSE BuiltinResult(-1, up.fdt, up.slots, FALSE)

\* simpleCommand->execute(simpleCommand) for a builtin that returns at once
CallBuiltin(simpleCommand, fdt, slots, list) ==
    CASE simpleCommand.execute = "cd" -> cd(simpleCommand, fdt, slots)
      [] simpleCommand.execute = "pwd" -> pwd(simpleCommand, fdt, slots)
      [] simpleCommand.execute = "exitShell" -> exitShell(simpleCommand, fdt, slots)
      [] simpleCommand.execute = "prompt" -> prompt(simpleCommand, fdt, slots)
      [] OTHER -> history(simpleCommand, fdt, slots, list)

(***************************************************************************)
(* command.c: executeCommandChain and executeCommand, one frame per call   *)
(* of executeCommandChain.  ci and si are the command of the chain and the *)
(* stage of the command the frame is at (1-based); statuses and results    *)
(* record what the stages of the current command and the commands of the   *)
(* chain returned so far.                                                  *)
(***************************************************************************)
NewFrame(chain) ==
    [chain |-> chain, ci |-> 1, si |-> 1, pc |-> "run", lastStatus |-> 0,
     pid |-> -1, statuses |-> <<>>, results |-> <<>>]

CurrentCommand(f) == f.chain[f.ci]
CurrentStage(f) == f.chain[f.ci].simpleCommands[f.si]

\* variant: the stages of a background pipeline wait like any other
MarkNoneNoWait(f) == f

\* variant: no stage waits
MarkAllNoWait(f) == [f EXCEPT !.chain[f.ci].simpleCommands[f.si].noWait = 1]

\* executeCommand 217-219: a stage of a background pipeline does not wait
MarkNoWait(f) ==
    IF CurrentCommand(f).background
    THEN [f EXCEPT !.chain[f.ci].simpleCommands[f.si].noWait = 1]
    ELSE f

\* variant: the stages after a failed stage are run all the same
AfterStageIgnoringStatus(f, status, fdt) ==
    LET command == CurrentCommand(f)
        statuses == Append(f.statuses, status)
    IN  IF f.si < command.nSimpleCommands
        THEN [frame |-> [f EXCEPT !.si = @ + 1, !.pc = "run", !.pid = -1,
                                  !.statuses = statuses],
              fdt |-> fdt, returned |-> FALSE, result |-> 0, statuses |-> statuses]
        ELSE [frame |-> [f EXCEPT !.ci = @ + 1, !.si = 1, !.pc = "run", !.pid = -1,
                                  !.statuses = <<>>, !.lastStatus = status,
                                  !.results = Append(@, status)],
              fdt |-> fdt, returned |-> TRUE, result |-> status, statuses |-> statuses]

\* variant: a failed pipeline ends the chain
AfterStageStopsChain(f, status, fdt) ==
    LET command == CurrentCommand(f)
        statuses == Append(f.statuses, status)
    IN  IF status # 0
        THEN [frame |-> [f EXCEPT !.ci = Len(f.chain) + 1, !.si = 1, !.pc = "run",
                                  !.pid = -1, !.statuses = <<>>, !.lastStatus = status,
                                  !.results = Append(@, status)],
              fdt |-> fdt, returned |-> TRUE, result |-> status, statuses |-> statuses]
        ELSE IF f.si < command.nSimpleCommands
        THEN [frame |-> [f EXCEPT !.si = @ + 1, !.pc = "run", !.pid = -1,
                                  !.statuses = statuses],
              fdt |-> fdt, returned |-> FALSE, result |-> 0, statuses |-> statuses]
        ELSE [frame |-> [f EXCEPT !.ci = @ + 1, !.si = 1, !.pc = "run", !.pid = -1,
                                  !.statuses = <<>>, !.lastStatus = 0,
                                  !.results = Append(@, 0)],
              fdt |-> fdt, returned |-> TRUE, result |-> 0, statuses |-> statuses]

\* executeCommand 232-247 and executeCommandChain 187-190, after the runner of
\* the current stage returned status: [frame, fdt, returned, result]
AfterStage(f, status, fdt) ==
    LET command == CurrentCommand(f)
        simpleCommand == CurrentStage(f)
        statuses == Append(f.statuses, status)
        closedIn == IF simpleCommand.inputFD # STDIN_FD
                    THEN CloseFd(fdt, simpleCommand.inputFD) ELSE fdt
        closedOut == IF simpleCommand.outputFD # STDOUT_FD
                     THEN CloseFd(closedIn, simpleCommand.outputFD) ELSE closedIn
        next == [f EXCEPT !.ci = @ + 1, !.si = 1, !.pc = "run", !.pid = -1,
                          !.statuses = <<>>]
    IN  IF status # 0
        THEN [frame |-> [next EXCEPT !.lastStatus = status,
                                     !.results = Append(@, status)],
              fdt |-> fdt, returned |-> TRUE, result |-> status,
              statuses |-> statuses]
        ELSE IF f.si < command.nSimpleCommands
        THEN [frame |-> [f EXCEPT !.si = @ + 1, !.pc = "run", !.pid = -1,
                                  !.statuses = statuses],
              fdt |-> closedOut, returned |-> FALSE, result |-> 0,
              statuses |-> statuses]
        ELSE [frame |-> [next EXCEPT !.lastStatus = 0, !.results = Append(@, 0)],
              fdt |-> closedOut, returned |-> TRUE, result |-> 0,
              statuses |-> statuses]

(***************************************************************************)
(* State.                                                                  *)
(***************************************************************************)
VARIABLES
    mainpc,        \* main: "prompt" (in getInput), "running" (in executeCommandChain), "exited"
    consumed,      \* tokens read from the input so far
    shellHistory,  \* globalShellState->history: the raw lines, oldest first
    fdt,           \* the interpreter's descriptor table
    fs,            \* the names in the working directory
    slots,         \* globalShellState->originalStd{in,out,err}FD
    nextPipe,      \* number of the next pipe the kernel creates
    stack,         \* the active calls of executeCommandChain, innermost last
    children,      \* the processes forked, by pid (1-based)
    launched,      \* runners invoked since main read its last line
    lineResult,    \* what parseTokens made of the last line main read
    lastStage,     \* the stage whose runner returned last: its descriptors and status
    lastPipeline,  \* the last return of executeCommand: stage statuses and result
    lastReturn,    \* the last return of executeCommandChain
    ptokens,       \* parser harness: the token array handed to parseTokens
    pres           \* parser harness: what parseTokens returned and left behind

shellVars == <<mainpc, consumed, shellHistory, fdt, fs, slots, nextPipe, stack,
               children, launched, lineResult, lastStage, lastPipeline, lastReturn>>
harnessVars == <<ptokens, pres>>
vars == <<shellVars, harnessVars>>

\* tokens the interpreter reads in one run
MaxInput == 4
\* nested calls of executeCommandChain (history re-entry)
MaxDepth == 3
\* processes the interpreter may have at a time (RLIMIT_NPROC)
ProcLimit == 2

InitFs == {S_f}
NotParsed == [result |-> "none", isNull |-> FALSE]
NoStage == [fds |-> {}, status |-> 0, pid |-> -1, valid |-> FALSE]
NoPipeline == [n |-> 0, statuses |-> <<>>, result |-> 0, valid |-> FALSE]
NoReturn == [status |-> 0, results |-> <<>>, n |-> 0, valid |-> FALSE]

InitShell ==
    /\ mainpc = "prompt"
    /\ consumed = 0
    /\ shellHistory = <<>>
    /\ fdt = InitFdt
    /\ fs = InitFs
    /\ slots = InitSlots
    /\ nextPipe = 1
    /\ stack = <<>>
    /\ children = <<>>
    /\ launched = 0
    /\ lineResult = "none"
    /\ lastStage = NoStage
    /\ lastPipeline = NoPipeline
    /\ lastReturn = NoReturn

(***************************************************************************)
(* main.c: the loop of main.                                               *)
(***************************************************************************)
ShellAlphabet == {S_a, S_pwd, S_bang1, S_bang9, S_pipe, S_gt, S_semi, S_and, S_amp}

Top == stack[Len(stack)]

\* main 157-197 for a line that is neither empty nor "exit": the line is added
\* to the history, tokenized and parsed, and the chain handed to
\* executeCommandChain, which returns -1 at once when there is none
ReadLines(lines) ==
    /\ mainpc = "prompt"
    /\ \E toks \in lines :
            LET input == Join(toks)
                ps == parseTokens(tokenizeString(input, " "), fdt, fs, nextPipe)
            IN  /\ input # S_empty
                /\ input # S_exit
                /\ consumed' = consumed + Len(toks)
                /\ shellHistory' = add_to_history(shellHistory, input)
                /\ fdt' = ps.fdt
                /\ fs' = ps.fs
                /\ nextPipe' = ps.nextPipe
                /\ lineResult' = ps.result
                /\ launched' = 0
                /\ lastStage' = NoStage
                /\ IF ps.isNull
                   THEN /\ stack' = <<>>
                        /\ mainpc' = "prompt"
                        /\ lastReturn' = [status |-> -1, results |-> <<>>, n |-> 0,
                                          valid |-> TRUE]
                   ELSE /\ stack' = <<NewFrame(ps.chain)>>
                        /\ mainpc' = "running"
                        /\ UNCHANGED lastReturn
    /\ UNCHANGED <<slots, children, lastPipeline, harnessVars>>

\* the lines of up to MaxInput tokens in all over an alphabet
ReadLineFrom(alphabet) ==
    ReadLines(UNION {[1 .. n -> alphabet] : n \in 1 .. (MaxInput - consumed)})

ReadLine == ReadLineFrom(ShellAlphabet)

\* main 162-166: the empty line is dropped
ReadEmptyLine ==
    /\ mainpc = "prompt"
    /\ UNCHANGED vars

\* main 167-171 and 203-206: the line "exit" ends the loop; clean_history
ReadExitLine ==
    /\ mainpc = "prompt"
    /\ consumed < MaxInput
    /\ consumed' = consumed + 1
    /\ mainpc' = "exited"
    /\ shellHistory' = <<>>
    /\ UNCHANGED <<fdt, fs, slots, nextPipe, stack, children, launched,
                   lineResult, lastStage, lastPipeline, lastReturn, harnessVars>>

\* main 160-161 and 203-206: end of input ends the loop; clean_history
ReadEof ==
    /\ mainpc = "prompt"
    /\ mainpc' = "exited"
    /\ shellHistory' = <<>>
    /\ UNCHANGED <<consumed, fdt, fs, slots, nextPipe, stack, children, launched,
                   lineResult, lastStage, lastPipeline, lastReturn, harnessVars>>

(***************************************************************************)
(* The engine: the steps of the innermost call of executeCommandChain.     *)
(***************************************************************************)
Running == mainpc = "running" /\ stack # <<>>
AtStage == Running /\ Top.pc = "run" /\ Top.ci <= Len(Top.chain)
              /\ CurrentCommand(Top).nSimpleCommands > 0

\* the runner of the current stage returned status to executeCommand, called
\* by the frame f that is put on top of the frames below
StageReturns(below, f, status, newFdt) ==
    LET r == AfterStage(f, status, newFdt)
        simpleCommand == CurrentStage(f)
    IN  /\ stack' = Append(below, r.frame)
        /\ fdt' = r.fdt
        /\ lastStage' = [fds |-> {simpleCommand.inputFD, simpleCommand.outputFD,
                                  simpleCommand.stderrFD},
                         status |-> status, pid |-> simpleCommand.pid,
                         valid |-> TRUE]
        /\ lastPipeline' = IF r.returned
                           THEN [n |-> CurrentCommand(f).nSimpleCommands,
                                 statuses |-> r.statuses, result |-> r.result,
                                 valid |-> TRUE]
                           ELSE lastPipeline

Below == SubSeq(stack, 1, Len(stack) - 1)

\* executeCommand 205-210: a command without stages returns -1
EmptyCommand ==
    /\ Running /\ Top.pc = "run" /\ Top.ci <= Len(Top.chain)
    /\ CurrentCommand(Top).nSimpleCommands = 0
    /\ stack' = Append(Below, [Top EXCEPT !.ci = @ + 1, !.si = 1, !.lastStatus = -1,
                                          !.results = Append(@, -1)])
    /\ lastPipeline' = [n |-> 0, statuses |-> <<>>, result |-> -1, valid |-> TRUE]
    /\ UNCHANGED <<mainpc, consumed, shellHistory, fdt, fs, slots, nextPipe, children,
                   launched, lineResult, lastStage, lastReturn, harnessVars>>

\* a builtin stage that returns without re-entering the engine, or ends the
\* interpreter
RunBuiltin ==
    /\ AtStage
    /\ LET f == MarkNoWait(Top)
           simpleCommand == CurrentStage(f)
       IN  /\ simpleCommand.execute # "executeProcess"
           /\ ~ (simpleCommand.execute = "history"
                   /\ HistoryReenters(simpleCommand, fdt, slots, shellHistory))
           /\ \E r \in {CallBuiltin(simpleCommand, fdt, slots, shellHistory)} :
                  /\ slots' = r.slots
                  /\ launched' = launched + 1
                  /\ IF r.exited
                     THEN /\ mainpc' = "exited"
                          /\ stack' = <<>>
                          /\ fdt' = r.fdt
                          /\ UNCHANGED <<lastStage, lastPipeline>>
                     ELSE /\ StageReturns(Below, f, r.status, r.fdt)
                          /\ UNCHANGED mainpc
    /\ UNCHANGED <<consumed, shellHistory, fs, nextPipe, children, lineResult,
                   lastReturn, harnessVars>>

\* history 368-375: the fetched line is tokenized and parsed and the chain
\* handed to executeCommandChain; without a chain that returns -1 at once,
\* and history returns 0
HistoryReenter ==
    /\ AtStage
    /\ Len(stack) < MaxDepth
    /\ LET f == MarkNoWait(Top)
           simpleCommand == CurrentStage(f)
       IN  /\ simpleCommand.execute = "history"
           /\ HistoryReenters(simpleCommand, fdt, slots, shellHistory)
           /\ \E up \in {setUpFD(fdt, slots, simpleCommand.inputFD,
                                 simpleCommand.outputFD, simpleCommand.stderrFD)} :
              \E input \in {historyLookup(simpleCommand, shellHistory)} :
              \E ps \in {parseTokens(tokenizeString(input, " "), up.fdt, fs, nextPipe)} :
                  /\ slots' = up.slots
                  /\ fs' = ps.fs
                  /\ nextPipe' = ps.nextPipe
                  /\ launched' = launched + 1
                  /\ IF ps.isNull
                     THEN StageReturns(Below, f, 0, ps.fdt)
                     ELSE /\ stack' = Below \o <<[f EXCEPT !.pc = "call"],
                                                 NewFrame(ps.chain)>>
                          /\ fdt' = ps.fdt
                          /\ lastStage' = NoStage
                          /\ UNCHANGED lastPipeline
    /\ UNCHANGED <<mainpc, consumed, shellHistory, children, lineResult, lastReturn,
                   harnessVars>>

\* the exit statuses a program ends with
ExitCodes == {0, 1}

\* bytes a pipe holds before a write to it blocks
PipeBuf == 1
\* bytes a program writes to its standard output when that is a pipe: its
\* whole output fits in the pipe, or it does not
OutputSizes == {PipeBuf, PipeBuf + 1}

\* the pipe the child of the stage has as its standard output and as its
\* standard input after setUpFD (0: not a pipe)
WritesPipe(table, simpleCommand) ==
    IF simpleCommand.outputFD \in Fds /\ table[simpleCommand.outputFD].kind = "pipeW"
    THEN table[simpleCommand.outputFD].id ELSE 0
ReadsPipe(table, simpleCommand) ==
    IF simpleCommand.inputFD \in Fds /\ table[simpleCommand.inputFD].kind = "pipeR"
    THEN table[simpleCommand.inputFD].id ELSE 0

LiveChildren == {pid \in DOMAIN children : children[pid].state # "reaped"}

\* executeProcess 390-421: fork; the parent records the pid and, for a stage
\* that does not wait, returns 0; fork fails at the process limit
ForkStage ==
    /\ AtStage
    /\ LET f == MarkNoWait(Top)
           simpleCommand == CurrentStage(f)
           pid == Len(children) + 1
           g == [f EXCEPT !.chain[f.ci].simpleCommands[f.si].pid = pid, !.pid = pid]
       IN  /\ simpleCommand.execute = "executeProcess"
           /\ launched' = launched + 1
           /\ IF Cardinality(LiveChildren) >= ProcLimit
              THEN /\ StageReturns(Below, f, -1, fdt)
                   /\ UNCHANGED children
              ELSE /\ \E output \in IF WritesPipe(fdt, simpleCommand) # 0
                                    THEN OutputSizes ELSE {0} :
                        children' = Append(children,
                          [state |-> "running", code |-> 0, sig |-> 0, execFailed |-> FALSE,
                           fg |-> ~ CurrentCommand(f).background,
                           line |-> Len(shellHistory), depth |-> Len(stack),
                           ci |-> f.ci, si |-> f.si,
                           wpipe |-> WritesPipe(fdt, simpleCommand),
                           rpipe |-> ReadsPipe(fdt, simpleCommand),
                           output |-> output])
                   /\ IF simpleCommand.noWait # 0
                      THEN StageReturns(Below, g, 0, fdt)
                      ELSE /\ stack' = Append(Below, [g EXCEPT !.pc = "wait"])
                           /\ UNCHANGED <<fdt, lastStage, lastPipeline>>
    /\ UNCHANGED <<mainpc, consumed, shellHistory, fs, slots, nextPipe, lineResult,
                   lastReturn, harnessVars>>

\* the interrupt signal
SIGINT == 2

\* variant: the exit status of a child that a signal ended is 128 + the signal
WEXITSTATUSOfShell(status) ==
    IF (status % 256) # 0 THEN 128 + (status % 128) ELSE (status \div 256) % 256

\* the status word waitpid stores has the exit code in bits 8-15 and the
\* signal that ended the child in bits 0-6; WEXITSTATUS reads bits 8-15
WEXITSTATUS(status) == (status \div 256) % 256

\* executeProcess 421-437: waitpid(pid) stores the status of the child, and
\* WEXITSTATUS of it is what executeProcess returns
WaitReap ==
    /\ Running /\ Top.pc = "wait"
    /\ children[Top.pid].state = "zombie"
    /\ children' = [children EXCEPT ![Top.pid].state = "reaped"]
    /\ StageReturns(Below, Top,
                    WEXITSTATUS(children[Top.pid].code * 256 + children[Top.pid].sig),
                    fdt)
    /\ UNCHANGED <<mainpc, consumed, shellHistory, fs, slots, nextPipe, launched,
                   lineResult, lastReturn, harnessVars>>

\* executeProcess 425-429: waitpid(pid) fails with ECHILD when the handler of
\* SIGCHLD took the child first
WaitEchild ==
    /\ Running /\ Top.pc = "wait"
    /\ children[Top.pid].state = "reaped"
    /\ StageReturns(Below, Top, -1, fdt)
    /\ UNCHANGED <<mainpc, consumed, shellHistory, fs, slots, nextPipe, children,
                   launched, lineResult, lastReturn, harnessVars>>

\* the child of executeProcess: execvp fails and the child exits with 1, or
\* the program runs and exits with a status of its own
\* variant: the child whose execvp failed ends with status 0
ChildEndsQuietly(child, execs, code) ==
    [child EXCEPT !.state = "zombie",
                  !.code = IF execs THEN code ELSE 0,
                  !.execFailed = ~ execs]

\* executeProcess 399-414 in the child: execvp replaces the image and the
\* program ends with a status of its own, or execvp fails and the child
\* calls exit(1)
ChildEnds(child, execs, code) ==
    [child EXCEPT !.state = "zombie",
                  !.code = IF execs THEN code ELSE 1,
                  !.execFailed = ~ execs]

\* variant: a write to a full pipe does not block
NeverBlocked(pid) == FALSE

\* the program of the child is in a write to its pipe that cannot finish: it
\* writes more than the pipe holds and no process reads the pipe
Blocked(pid) ==
    /\ children[pid].output > PipeBuf
    /\ ~ \E q \in DOMAIN children : children[q].rpipe = children[pid].wpipe

\* a child that writes more than the pipe holds is one whose execvp succeeded
ChildExit ==
    \E pid \in DOMAIN children : \E code \in ExitCodes :
      \E execs \in IF children[pid].output > PipeBuf THEN {TRUE} ELSE BOOLEAN :
        /\ children[pid].state = "running"
        /\ ~ Blocked(pid)
        /\ children' = [children EXCEPT ![pid] = ChildEnds(@, execs, code)]
        /\ UNCHANGED <<mainpc, consumed, shellHistory, fdt, fs, slots, nextPipe, stack,
                       launched, lineResult, lastStage, lastPipeline, lastReturn,
                       harnessVars>>

\* a signal whose action is the default one ends the program of a child,
\* blocked in a write or not; the child has no exit code
ChildKilled ==
    \E pid \in DOMAIN children :
        /\ children[pid].state = "running"
        /\ children' = [children EXCEPT ![pid].state = "zombie", ![pid].sig = SIGINT]
        /\ UNCHANGED <<mainpc, consumed, shellHistory, fdt, fs, slots, nextPipe, stack,
                       launched, lineResult, lastStage, lastPipeline, lastReturn,
                       harnessVars>>

\* variant: the handler claims one child and returns, without the loop
sigchld_handler_once ==
    /\ mainpc # "exited"
    /\ \E pid \in DOMAIN children :
          /\ children[pid].state = "zombie"
          /\ children' = [children EXCEPT ![pid].state = "reaped"]
    /\ UNCHANGED <<mainpc, consumed, shellHistory, fdt, fs, slots, nextPipe, stack,
                   launched, lineResult, lastStage, lastPipeline, lastReturn,
                   harnessVars>>

\* main.c 86-97: the handler of SIGCHLD claims every zombie there is
sigchld_handler ==
    /\ mainpc # "exited"
    /\ \E pid \in DOMAIN children : children[pid].state = "zombie"
    /\ children' = [pid \in DOMAIN children |->
                       IF children[pid].state = "zombie"
                       THEN [children[pid] EXCEPT !.state = "reaped"]
                       ELSE children[pid]]
    /\ UNCHANGED <<mainpc, consumed, shellHistory, fdt, fs, slots, nextPipe, stack,
                   launched, lineResult, lastStage, lastPipeline, lastReturn,
                   harnessVars>>

ChainDone == Running /\ Top.pc = "run" /\ Top.ci > Len(Top.chain)

\* executeCommandChain 193 returning to main 189-200
ReturnToMain ==
    /\ ChainDone
    /\ Len(stack) = 1
    /\ stack' = <<>>
    /\ mainpc' = "prompt"
    /\ lastReturn' = [status |-> Top.lastStatus, results |-> Top.results,
                      n |-> Len(Top.chain), valid |-> TRUE]
    /\ UNCHANGED <<consumed, shellHistory, fdt, fs, slots, nextPipe, children, launched,
                   lineResult, lastStage, lastPipeline, harnessVars>>

\* variant: history returns the status of the chain it ran
ReturnToHistoryWithStatus ==
    /\ ChainDone
    /\ Len(stack) > 1
    /\ lastReturn' = [status |-> Top.lastStatus, results |-> Top.results,
                      n |-> Len(Top.chain), valid |-> TRUE]
    /\ StageReturns(SubSeq(stack, 1, Len(stack) - 2), stack[Len(stack) - 1],
                    Top.lastStatus, fdt)
    /\ UNCHANGED <<mainpc, consumed, shellHistory, fs, slots, nextPipe, children,
                   launched, lineResult, harnessVars>>

\* executeCommandChain 193 returning to history 375-387, which discards the
\* status and returns 0 to executeCommand
ReturnToHistory ==
    /\ ChainDone
    /\ Len(stack) > 1
    /\ lastReturn' = [status |-> Top.lastStatus, results |-> Top.results,
                      n |-> Len(Top.chain), valid |-> TRUE]
    /\ StageReturns(SubSeq(stack, 1, Len(stack) - 2), stack[Len(stack) - 1], 0, fdt)
    /\ UNCHANGED <<mainpc, consumed, shellHistory, fs, slots, nextPipe, children,
                   launched, lineResult, harnessVars>>

Init ==
    /\ InitShell
    /\ ptokens = <<>>
    /\ pres = NotParsed

Next ==
    \/ ReadLine
    \/ ReadEmptyLine
    \/ ReadExitLine
    \/ ReadEof
    \/ EmptyCommand
    \/ RunBuiltin
    \/ HistoryReenter
    \/ ForkStage
    \/ WaitReap
    \/ WaitEchild
    \/ ChildExit
    \/ sigchld_handler
    \/ ReturnToMain
    \/ ReturnToHistory

Spec == Init /\ [][Next]_vars

\* main.c 149-152: the handler is installed for SIGCHLD, which the kernel
\* delivers while an exited child is unclaimed
SpecReap == Init /\ [][Next]_vars /\ WF_vars(sigchld_handler)

(***************************************************************************)
(* The interpreter on lines of history references.                         *)
(***************************************************************************)
HistoryAlphabet == {S_a, S_semi, S_bang0, S_bang1, S_bang2, S_banga}

ReadHistoryLine == ReadLineFrom(HistoryAlphabet)

NextHistory ==
    \/ ReadHistoryLine
    \/ ReadEmptyLine
    \/ ReadExitLine
    \/ ReadEof
    \/ EmptyCommand
    \/ RunBuiltin
    \/ HistoryReenter
    \/ ForkStage
    \/ WaitReap
    \/ WaitEchild
    \/ ChildExit
    \/ sigchld_handler
    \/ ReturnToMain
    \/ ReturnToHistory

SpecHistory == Init /\ [][NextHistory]_vars

(***************************************************************************)
(* The interpreter on lines of external commands and pipes.  The kernel    *)
(* schedules the interpreter and its children, and a program that is not   *)
(* held in a write to a full pipe comes to its end.                        *)
(***************************************************************************)
PipeAlphabet == {S_a, S_pipe, S_semi, S_amp}

ReadPipeLine == ReadLineFrom(PipeAlphabet)

NextPipeline ==
    \/ ReadPipeLine
    \/ ReadEmptyLine
    \/ ReadExitLine
    \/ ReadEof
    \/ EmptyCommand
    \/ ForkStage
    \/ WaitReap
    \/ WaitEchild
    \/ ChildExit
    \/ sigchld_handler
    \/ ReturnToMain

SpecPipeline ==
    /\ Init
    /\ [][NextPipeline]_vars
    /\ WF_vars(EmptyCommand)
    /\ WF_vars(ForkStage)
    /\ WF_vars(WaitReap)
    /\ WF_vars(WaitEchild)
    /\ WF_vars(ChildExit)
    /\ WF_vars(ReturnToMain)

(***************************************************************************)
(* The interpreter on lines of one or two pipelines of one stage, each     *)
(* with at most one redirection, whose file name may be missing; of the    *)
(* two file names, f exists at the start and a does not.                   *)
(***************************************************************************)
MaxLines == 1

TargetPipelines ==
    {<<S_a>>}
        \cup {<<S_a, op>> : op \in {S_gt, S_gtgt, S_lt, S_2gt}}
        \cup {<<S_a, op, name>> : op \in {S_gt, S_gtgt, S_lt, S_2gt},
                                  name \in {S_f, S_a}}

TargetLines ==
    TargetPipelines
        \cup {p \o <<S_semi>> \o q : p \in TargetPipelines, q \in TargetPipelines}

ReadTargetLine ==
    Len(shellHistory) < MaxLines /\ ReadLines(TargetLines)

NextTargets ==
    \/ ReadTargetLine
    \/ ReadEmptyLine
    \/ ReadExitLine
    \/ ReadEof
    \/ ForkStage
    \/ WaitReap
    \/ WaitEchild
    \/ ChildExit
    \/ sigchld_handler
    \/ ReturnToMain

SpecTargets == Init /\ [][NextTargets]_vars

(***************************************************************************)
(* The interpreter on lines of external commands whose children a signal   *)
(* may end.                                                                *)
(***************************************************************************)
SpecSignals == Init /\ [][NextPipeline \/ ChildKilled]_vars

(***************************************************************************)
(* The interpreter on lines of history references, some with a pipe,       *)
(* under the same scheduling.                                              *)
(***************************************************************************)
SelfAlphabet == {S_a, S_bang1, S_bang2, S_pipe, S_semi}

ReadSelfLine == ReadLineFrom(SelfAlphabet)

NextSelf ==
    \/ ReadSelfLine
    \/ ReadEmptyLine
    \/ ReadExitLine
    \/ ReadEof
    \/ EmptyCommand
    \/ RunBuiltin
    \/ HistoryReenter
    \/ ForkStage
    \/ WaitReap
    \/ WaitEchild
    \/ ChildExit
    \/ sigchld_handler
    \/ ReturnToMain
    \/ ReturnToHistory

\* executeCommand is about to call a builtin, and the model follows the call
AtBuiltin ==
    /\ AtStage
    /\ CurrentStage(Top).execute # "executeProcess"
    /\ (/\ CurrentStage(Top).execute = "history"
        /\ HistoryReenters(CurrentStage(Top), fdt, slots, shellHistory))
       => Len(stack) < MaxDepth

\* weak fairness of the call of a builtin (RunBuiltin or HistoryReenter),
\* written with the guard of the two actions
BuiltinFairness ==
    \/ []<>(~ AtBuiltin)
    \/ []<><<AtBuiltin /\ launched' = launched + 1>>_vars

SpecSelf ==
    /\ Init
    /\ [][NextSelf]_vars
    /\ BuiltinFairness
    /\ WF_vars(EmptyCommand)
    /\ WF_vars(ForkStage)
    /\ WF_vars(WaitReap)
    /\ WF_vars(WaitEchild)
    /\ WF_vars(ChildExit)
    /\ WF_vars(ReturnToMain)
    /\ WF_vars(ReturnToHistory)

(***************************************************************************)
(* The interpreter on lines made of the names of the builtins.             *)
(***************************************************************************)
NameAlphabet == {S_a, S_cd, S_exit, S_pwd, S_history, S_prompt, S_semi}

ReadNameLine == ReadLineFrom(NameAlphabet)

NextNames ==
    \/ ReadNameLine
    \/ ReadEmptyLine
    \/ ReadExitLine
    \/ ReadEof
    \/ EmptyCommand
    \/ RunBuiltin
    \/ HistoryReenter
    \/ ForkStage
    \/ WaitReap
    \/ WaitEchild
    \/ ChildExit
    \/ sigchld_handler
    \/ ReturnToMain
    \/ ReturnToHistory

SpecNames == Init /\ [][NextNames]_vars

(***************************************************************************)
(* parseTokens alone: every token array up to MaxTokens tokens, parsed by  *)
(* a process that has the standard streams only.                           *)
(***************************************************************************)
ParseAlphabet == {S_f, S_bang1, S_pipe, S_gt, S_gtgt, S_lt, S_2gt, S_semi, S_empty}

TokenArrays == UNION {[1 .. n -> ParseAlphabet] : n \in 0 .. MaxTokens}

InitParse ==
    /\ InitShell
    /\ ptokens \in TokenArrays
    /\ pres = NotParsed

CallParse ==
    /\ pres = NotParsed
    /\ pres' = parseTokens(ptokens, InitFdt, InitFs, 1)
    /\ UNCHANGED <<ptokens, shellVars>>

NextParse == CallParse

SpecParse == InitParse /\ [][NextParse]_vars

(***************************************************************************)
(* parseTokens, one pass of its outer loop at a time.                      *)
(***************************************************************************)
InitPass ==
    /\ InitShell
    /\ ptokens \in TokenArrays
    /\ pres = ParseStart(InitFdt, InitFs, 1)

ParsePass ==
    /\ pres.result = "running"
    /\ pres' = IF Tok(ptokens, pres.idx) = NULL
               THEN [pres EXCEPT !.result = "ok"]
               ELSE OuterPass(ptokens, pres)
    /\ UNCHANGED <<ptokens, shellVars>>

\* the loop goes on while it can: weak fairness of the pass, which is enabled
\* exactly while the result is "running"
PassFairness ==
    []<>(pres.result # "running") \/ []<><<pres.result = "running" /\ ParsePass>>_vars

SpecPass == InitPass /\ [][ParsePass]_vars /\ PassFairness

(***************************************************************************)
(* parseTokens on words: quoted words and the forms of the '!' word.       *)
(***************************************************************************)
WordAlphabet == {S_f, S_qf, S_bang, S_bang1, S_bangq, S_pipe, S_semi}

WordArrays == UNION {[1 .. n -> WordAlphabet] : n \in 0 .. MaxTokens}

InitWords ==
    /\ InitShell
    /\ ptokens \in WordArrays
    /\ pres = NotParsed

SpecWords == InitWords /\ [][NextParse]_vars

(***************************************************************************)
(* pushArgs alone: the words of an array are pushed, one call at a time,   *)
(* onto a stage made by initSimpleCommand.                                 *)
(***************************************************************************)
PushArrays ==
    UNION {[1 .. n -> {S_a, S_f, S_pwd, S_empty}] : n \in 0 .. MaxTokens}

InitPush ==
    /\ InitShell
    /\ ptokens \in PushArrays
    /\ pres = [result |-> "pushing", pushed |-> 0, stage |-> initSimpleCommand]

CallPushArgs ==
    /\ pres.result = "pushing"
    /\ pres.pushed < Len(ptokens)
    /\ pres' = [pres EXCEPT !.pushed = @ + 1,
                            !.stage = pushArgs(ptokens[pres.pushed + 1], @)]
    /\ UNCHANGED <<ptokens, shellVars>>

SpecPush == InitPush /\ [][CallPushArgs]_vars

(***************************************************************************)
(* The grammar of a line, read off the token array alone: the role of      *)
(* every token.  The token after a redirection operator (blank tokens      *)
(* skipped) is a file name, whatever its text.                             *)
(***************************************************************************)
RoleOfText(token) ==
    CASE token = S_pipe -> "pipe"
      [] token \in {S_gt, S_gtgt} -> "out"
      [] token = S_lt -> "in"
      [] token = S_2gt -> "err"
      [] token \in {S_semi, S_amp, S_and, S_or} -> "chain"
      [] token = S_empty -> "blank"
      [] OTHER -> "word"

\* one record per token: its role, its pipeline and its stage in the pipeline
\* (both 1-based); an operator belongs to the pipeline or stage it closes
RECURSIVE LayoutFrom(_, _, _, _, _)
LayoutFrom(tokens, i, expectFile, pl, st) ==
    IF i > Len(tokens) THEN <<>>
    ELSE LET r == IF expectFile
                  THEN (IF tokens[i] = S_empty THEN "blank" ELSE "file")
                  ELSE RoleOfText(tokens[i])
             e == IF expectFile THEN r = "blank" ELSE r \in {"out", "in", "err"}
         IN  <<[role |-> r, pl |-> pl, st |-> st]>> \o
             LayoutFrom(tokens, i + 1, e,
                        IF r = "chain" THEN pl + 1 ELSE pl,
                        IF r = "chain" THEN 1 ELSE IF r = "pipe" THEN st + 1 ELSE st)

Layout(tokens) == LayoutFrom(tokens, 1, FALSE, 1, 1)

PipeCount(L, k) ==
    Cardinality({i \in DOMAIN L : L[i].pl = k /\ L[i].role = "pipe"})
HasRole(L, k, s, role) ==
    \E i \in DOMAIN L : L[i].pl = k /\ L[i].st = s /\ L[i].role = role
\* each pipe operator has a command word before it and after it
ValidPipeline(L, k) ==
    \A s \in 1 .. (PipeCount(L, k) + 1) : HasRole(L, k, s, "word")
\* the stage of position i has the role at an earlier position
Earlier(L, i, role) ==
    \E j \in DOMAIN L :
        j < i /\ L[j].pl = L[i].pl /\ L[j].st = L[i].st /\ L[j].role = role

Parsed == pres # NotParsed
Accepted == Parsed /\ ~ pres.isNull
Rejected == Parsed /\ pres.isNull

\* stage s writes into the pipe that stage s + 1 reads
Connected(table, command, s) ==
    LET w == command.simpleCommands[s].outputFD
        r == command.simpleCommands[s + 1].inputFD
    IN  /\ w \in Fds /\ r \in Fds
        /\ table[w].kind = "pipeW"
        /\ table[r].kind = "pipeR"
        /\ table[w].id = table[r].id

(* C1: a valid pipeline with N pipe operators is parsed into a Command with *)
(* exactly N+1 stages; for every i < N stage i writes to the write end and  *)
(* stage i+1 reads from the read end of the same pipe; the first stage's    *)
(* input and the last stage's output are the standard streams unless a file *)
(* redirection of that stage overrides them.                                *)
C1_PipelineShape ==
    Accepted =>
        LET L == Layout(ptokens)
        IN  \A k \in 1 .. Len(pres.chain) :
                ValidPipeline(L, k) =>
                    LET command == pres.chain[k]
                        N == PipeCount(L, k)
                    IN  /\ command.nSimpleCommands = N + 1
                        /\ Len(command.simpleCommands) = N + 1
                        /\ \A s \in 1 .. N : Connected(pres.fdt, command, s)
                        /\ HasRole(L, k, 1, "in")
                             \/ command.simpleCommands[1].inputFD = STDIN_FD
                        /\ HasRole(L, k, N + 1, "out")
                             \/ command.simpleCommands[N + 1].outputFD = STDOUT_FD

\* a line with two pipe operators is accepted as one pipeline of three stages
C1_Witness ==
    /\ Accepted
    /\ ptokens = <<S_f, S_pipe, S_f, S_pipe, S_f>>
    /\ Len(pres.chain) = 1
    /\ pres.chain[1].nSimpleCommands = 3
    /\ Connected(pres.fdt, pres.chain[1], 1)
    /\ Connected(pres.fdt, pres.chain[1], 2)

(* C2: when parseTokens rejects a line, every descriptor opened during the  *)
(* parse has been closed and every chain, Command and SimpleCommand         *)
(* allocated during the parse has been released.                            *)
C2_RejectReleasesAll ==
    Rejected =>
        /\ \A fd \in pres.opened : pres.fdt[fd] = Closed
        /\ pres.liveChain = 0
        /\ pres.liveCommand = 0
        /\ pres.liveSimple = 0

\* a pipe or redirection operator at position i whose stage has no word yet
OperatorBeforeName(L, i) ==
    /\ L[i].role \in {"pipe", "out", "in", "err"}
    /\ ~ Earlier(L, i, "word")

(* C9: a pipe operator or a redirection operator (output truncate, output   *)
(* append, input, stderr) met while the in-progress stage has no program    *)
(* name aborts the parse: parseTokens returns no chain.                     *)
C9_OperatorNeedsName ==
    Parsed =>
        LET L == Layout(ptokens)
        IN  (\E i \in DOMAIN L : OperatorBeforeName(L, i)) => Rejected

\* an operator at position i that binds a stream its stage has bound already
SecondBinding(L, i) ==
    \/ L[i].role \in {"pipe", "out"} /\ Earlier(L, i, "out")
    \/ L[i].role = "in" /\ (Earlier(L, i, "in") \/ L[i].st > 1)
    \/ L[i].role = "err" /\ Earlier(L, i, "err")

(* C10: binding a stream of one stage twice aborts the parse: a pipe or an  *)
(* output redirection on a stage whose output is bound, an input            *)
(* redirection on a stage whose input is a file or the read end of a pipe,  *)
(* a stderr redirection on a stage whose error descriptor is a file.        *)
C10_NoSecondBinding ==
    Parsed =>
        LET L == Layout(ptokens)
        IN  (\E i \in DOMAIN L : SecondBinding(L, i)) => Rejected

\* 'f < f < f' : an input redirection on a stage whose input is a file, rejected
C10_Witness ==
    /\ Rejected
    /\ ptokens = <<S_f, S_lt, S_f, S_lt, S_f>>

(***************************************************************************)
(* The interpreter: what the engine did with the lines main read.          *)
(***************************************************************************)
StdFds == {STDIN_FD, STDOUT_FD, STDERR_FD}

\* the child p was forked and no wait has taken it
Unwaited(p) == children[p].state # "reaped"

\* a call of a builtin is in progress: history re-entered the engine
InBuiltin == \E d \in DOMAIN stack : stack[d].pc = "call"

(* C3: when the parser rejects the line main read, no stage of the line is  *)
(* executed (no child is forked, no builtin is called) and the loop of main *)
(* goes on to the next line.                                                *)
C3_RejectedLineRunsNothing ==
    lineResult = "rejected" =>
        /\ launched = 0
        /\ stack = <<>>
        /\ mainpc # "running"
        /\ lastReturn.valid /\ lastReturn.status = -1 /\ lastReturn.n = 0

\* '| a' is rejected after a line that forked a child; main is at its prompt
\* again with input left to read
C3_Witness ==
    /\ lineResult = "rejected"
    /\ mainpc = "prompt"
    /\ Len(shellHistory) = 2
    /\ shellHistory[2] = Join(<<S_pipe, S_a>>)
    /\ Len(children) = 1
    /\ consumed < MaxInput

(* C4: after a stage has been run by executeCommand, every descriptor of    *)
(* the stage (input, output, error) that is not a standard stream is closed *)
(* in the interpreter, whether the stage returned zero or not.              *)
C4_StageDescriptorsClosed ==
    lastStage.valid => \A fd \in lastStage.fds \ StdFds : fdt[fd] = Closed

(* C5: a stage that returns a non-zero status is the last stage its         *)
(* pipeline runs, and its status is the result of the pipeline;             *)
(* executeCommandChain returns the result of the last pipeline of the chain.*)
C5_FailureStopsPipeline ==
    /\ (lastPipeline.valid /\ lastPipeline.n > 0) =>
          LET k == Len(lastPipeline.statuses)
          IN  /\ k \in 1 .. lastPipeline.n
              /\ \A i \in 1 .. k - 1 : lastPipeline.statuses[i] = 0
              /\ lastPipeline.statuses[k] = 0 => k = lastPipeline.n
              /\ lastPipeline.result = lastPipeline.statuses[k]
    /\ \A d \in DOMAIN stack :
          /\ Len(stack[d].statuses) = stack[d].si - 1
          /\ \A i \in DOMAIN stack[d].statuses : stack[d].statuses[i] = 0
          /\ stack[d].results # <<>> =>
                stack[d].lastStatus = stack[d].results[Len(stack[d].results)]
    /\ (lastReturn.valid /\ lastReturn.n > 0) =>
          /\ Len(lastReturn.results) = lastReturn.n
          /\ lastReturn.status = lastReturn.results[lastReturn.n]

\* 'a | a' whose first stage exited with 1: the pipeline ran one stage of its
\* two, its result and the result of the chain are 1
C5_Witness ==
    /\ lastPipeline.valid
    /\ lastPipeline.n = 2
    /\ lastPipeline.statuses = <<1>>
    /\ lastPipeline.result = 1
    /\ lastReturn.valid
    /\ lastReturn.results = <<1>>
    /\ lastReturn.status = 1
    /\ Len(children) = 1

C7_OneUnwaitedStage ==
    /\ \A p, q \in DOMAIN children :
          (/\ p # q
           /\ children[p].fg /\ children[q].fg
           /\ children[p].line = children[q].line
           /\ children[p].depth = children[q].depth
           /\ children[p].ci = children[q].ci)
          => ~ (Unwaited(p) /\ Unwaited(q))
    /\ \A p \in DOMAIN children :
          (children[p].fg /\ Unwaited(p)) =>
              /\ Len(stack) = children[p].depth
              /\ Top.pc = "wait"
              /\ Top.pid = p
              /\ Top.si = children[p].si

\* 'a | a': the second stage is running and the first has been waited for
C7_Witness ==
    /\ Len(children) = 2
    /\ children[1].fg /\ children[2].fg
    /\ children[1].line = children[2].line
    /\ children[1].ci = children[2].ci
    /\ children[1].si = 1 /\ children[2].si = 2
    /\ children[1].state = "reaped"
    /\ children[2].state = "running"

(* C8: after a builtin stage that overrides a standard stream (pwd or       *)
(* history with a redirected or piped descriptor) has completed, on its     *)
(* success paths and on its error paths, each standard stream of the        *)
(* interpreter refers to the stream it referred to before the stage.        *)
C8_BuiltinRestoresStreams ==
    (mainpc # "exited" /\ ~ InBuiltin) =>
        \A fd \in StdFds : fdt[fd] = InitFdt[fd]

(***************************************************************************)
(* The stages of a returned chain against the words of the line.           *)
(***************************************************************************)
\* the position after i of the first token that is not blank, 0 if none
NextSolid(L, i) ==
    LET later == {j \in DOMAIN L : j > i /\ L[j].role # "blank"}
    IN  IF later = {} THEN 0 ELSE CHOOSE j \in later : \A h \in later : j <= h

\* a pipe operator followed by a chaining operator or by the end of the line
DanglingPipe(L, i) ==
    /\ L[i].role = "pipe"
    /\ NextSolid(L, i) = 0 \/ L[NextSolid(L, i)].role = "chain"

(* C11: a pipe operator followed directly (blank tokens aside) by a chaining *)
(* operator or by the end of the line is a parse error: parseTokens returns  *)
(* no chain.                                                                 *)
C11_DanglingPipeRejected ==
    Parsed =>
        LET L == Layout(ptokens)
        IN  (\E i \in DOMAIN L : DanglingPipe(L, i)) => Rejected

(* C12: in every chain parseTokens returns, every pipeline has at least one  *)
(* stage, also for a leading, a repeated or a trailing chaining operator.    *)
C12_NoEmptyPipeline ==
    Accepted =>
        \A k \in DOMAIN pres.chain :
            /\ pres.chain[k].nSimpleCommands >= 1
            /\ Len(pres.chain[k].simpleCommands) >= 1

(* C13: a line that holds ignorable tokens only is parsed, without an error, *)
(* into a chain that has no pipelines.                                       *)
C13_BlankLineEmptyChain ==
    (Parsed /\ \A i \in DOMAIN ptokens : IGNORE(ptokens[i])) =>
        /\ Accepted
        /\ pres.chain = <<>>

\* the word tokens of stage s of pipeline k, in the order of the line
RECURSIVE WordsFrom(_, _, _, _, _)
WordsFrom(L, tokens, k, s, i) ==
    IF i > Len(tokens) THEN <<>>
    ELSE (IF L[i].pl = k /\ L[i].st = s /\ L[i].role = "word"
          THEN <<tokens[i]>> ELSE <<>>) \o WordsFrom(L, tokens, k, s, i + 1)
WordsOf(L, tokens, k, s) == WordsFrom(L, tokens, k, s, 1)

\* a word of two characters or more that starts with '!'
IsBangText(word) == Len(word) >= 2 /\ word[1] = "!"

\* the arguments the words of one stage stand for
ArgsOfWords(words) ==
    IF IsBangText(words[1])
    THEN <<S_history, SubSeq(words[1], 2, Len(words[1]))>> \o
         [i \in 1 .. Len(words) - 1 |-> removeQuotes(words[i + 1])]
    ELSE [i \in 1 .. Len(words) |-> removeQuotes(words[i])]

(* C14: every stage committed to a pipeline has a non-empty argument list,   *)
(* its program name is its first argument, its argument count is the number  *)
(* of arguments pushed, and the list ends with the terminator right after    *)
(* the last argument.                                                        *)
C14_CommittedStageArgs ==
    Accepted =>
        LET L == Layout(ptokens)
        IN  \A k \in DOMAIN pres.chain :
                \A s \in 1 .. pres.chain[k].nSimpleCommands :
                    LET simpleCommand == pres.chain[k].simpleCommands[s]
                        words == WordsOf(L, ptokens, k, s)
                        pushed == Len(words) + (IF IsBangText(words[1]) THEN 1 ELSE 0)
                    IN  /\ simpleCommand.argc >= 1
                        /\ simpleCommand.argc = pushed
                        /\ Len(simpleCommand.args) = simpleCommand.argc + 1
                        /\ \A i \in 1 .. simpleCommand.argc : simpleCommand.args[i] # NULL
                        /\ simpleCommand.args[simpleCommand.argc + 1] = NULL
                        /\ simpleCommand.commandName = simpleCommand.args[1]

\* 'f f | !1': a stage of two arguments and a stage of the two arguments of '!1'
C14_Witness ==
    /\ Accepted
    /\ ptokens = <<S_f, S_f, S_pipe, S_bang1>>
    /\ pres.chain[1].nSimpleCommands = 2
    /\ pres.chain[1].simpleCommands[1].args = <<S_f, S_f, NULL>>
    /\ pres.chain[1].simpleCommands[2].argc = 2

(* C18: a word of two characters or more that starts with '!' and is the     *)
(* first word of its stage becomes the two arguments 'history' and the rest  *)
(* of the token, unchanged, and the stage is bound to the history builtin; a *)
(* '!' word that is not the first of its stage and the word '!' alone are    *)
(* plain words.                                                              *)
C18_BangWordRewritten ==
    Accepted =>
        LET L == Layout(ptokens)
        IN  \A k \in DOMAIN pres.chain :
                \A s \in 1 .. pres.chain[k].nSimpleCommands :
                    LET simpleCommand == pres.chain[k].simpleCommands[s]
                        words == WordsOf(L, ptokens, k, s)
                    IN  /\ words # <<>>
                        /\ simpleCommand.args = ArgsOfWords(words) \o <<NULL>>
                        /\ IsBangText(words[1]) => simpleCommand.execute = "history"
                        /\ words[1] = S_bang =>
                              /\ simpleCommand.commandName = S_bang
                              /\ simpleCommand.execute = "executeProcess"

\* '!"1" !1 | ! "f"': the first word keeps its quotes behind 'history', the
\* second '!' word and the word '!' are plain
C18_Witness ==
    /\ Accepted
    /\ ptokens = <<S_bangq, S_bang1, S_pipe, S_bang, S_qf>>
    /\ pres.chain[1].simpleCommands[1].args =
          <<S_history, <<"\"", "1", "\"">>, S_bang1, NULL>>
    /\ pres.chain[1].simpleCommands[1].execute = "history"
    /\ pres.chain[1].simpleCommands[2].args = <<S_bang, S_f, NULL>>

(***************************************************************************)
(* The children of external stages.                                        *)
(***************************************************************************)
\* the stage whose runner returned last forked the child p
LastStageForked(p) == lastStage.valid /\ lastStage.pid = p

(* C15: a child whose execvp fails terminates with a non-zero status and     *)
(* runs no interpreter code; the parent observes a non-zero status for the   *)
(* stage, and the loop of main goes on.  Here for the stages the parent      *)
(* waits for, those of foreground pipelines.                                 *)
C15_ExecFailureForeground ==
    \A p \in DOMAIN children :
        children[p].execFailed =>
            /\ children[p].state \in {"zombie", "reaped"}
            /\ children[p].code # 0
            /\ (children[p].fg /\ LastStageForked(p)) => lastStage.status # 0

(* C15 as stated, for every external stage: the parent observes a non-zero   *)
(* status for the stage whose child could not replace its image.             *)
C15_ExecFailureObserved ==
    \A p \in DOMAIN children :
        children[p].execFailed =>
            /\ children[p].state \in {"zombie", "reaped"}
            /\ children[p].code # 0
            /\ LastStageForked(p) => lastStage.status # 0

\* 'a' whose execvp failed: the stage and the chain returned 1 and main is at
\* its prompt with input left to read
C15_Witness ==
    /\ Len(children) = 1
    /\ children[1].execFailed /\ children[1].fg
    /\ children[1].state = "reaped"
    /\ LastStageForked(1) /\ lastStage.status = 1
    /\ lastReturn.valid /\ lastReturn.status = 1
    /\ mainpc = "prompt"
    /\ consumed < MaxInput

(* C16: for a stage of a background pipeline the parent does not block on    *)
(* the child: executeProcess records the pid and returns 0 without waiting,  *)
(* and the following stages and pipelines are launched while the child may   *)
(* still be running.                                                         *)
C16_BackgroundNotWaited ==
    /\ \A d \in DOMAIN stack :
          stack[d].pc = "wait" =>
              /\ stack[d].pid \in DOMAIN children
              /\ children[stack[d].pid].fg
    /\ \A p \in DOMAIN children :
          (~ children[p].fg /\ LastStageForked(p)) => lastStage.status = 0

\* 'a & a &': the second pipeline was launched while the child of the first
\* was running, and main is at its prompt while both run
C16_Witness ==
    /\ Len(children) = 2
    /\ ~ children[1].fg /\ ~ children[2].fg
    /\ children[1].state = "running" /\ children[2].state = "running"
    /\ children[1].ci = 1 /\ children[2].ci = 2
    /\ LastStageForked(2) /\ lastStage.status = 0
    /\ mainpc = "prompt"

HasZombie == \E p \in DOMAIN children : children[p].state = "zombie"

\* a step that claims children and leaves the engine where it is
ReapStep ==
    /\ stack' = stack
    /\ \E p \in DOMAIN children :
          children[p].state = "zombie" /\ children'[p].state = "reaped"

(* C17: every child that exits is eventually reaped by the handler of        *)
(* SIGCHLD (given that SIGCHLD is delivered), so no exited child stays a     *)
(* zombie for ever; the handler claims what has exited and returns: it does  *)
(* not wait for a child that is running and does not stop the interpreter.   *)
C17_ZombiesReaped ==
    /\ HasZombie ~> (~ HasZombie \/ mainpc = "exited")
    /\ [][ReapStep =>
             /\ DOMAIN children' = DOMAIN children
             /\ \A p \in DOMAIN children :
                   /\ children'[p].state # "zombie"
                   /\ children[p].state = "running" => children'[p].state = "running"
             /\ mainpc' = mainpc]_vars

\* 'a &': the background child exited and was claimed while main was at its
\* prompt
C17_Witness ==
    /\ Len(children) = 1
    /\ ~ children[1].fg
    /\ children[1].state = "reaped"
    /\ mainpc = "prompt"

(***************************************************************************)
(* The history builtin called with one argument.                           *)
(***************************************************************************)
\* executeCommand is about to call history with one argument
HistoryCall ==
    /\ AtStage
    /\ CurrentStage(Top).execute = "history"
    /\ CurrentStage(Top).argc = 2

HistoryArg == Arg(CurrentStage(Top), 1)

\* what the call does: it re-enters the engine on a line, or it returns
HistoryCallReenters == HistoryReenters(CurrentStage(Top), fdt, slots, shellHistory)
HistoryCallLine == historyLookup(CurrentStage(Top), shellHistory)
HistoryCallReturn == CallBuiltin(CurrentStage(Top), fdt, slots, shellHistory)

\* the call reports a failure: it returns -1, runs no line, and the
\* interpreter lives on
HistoryCallFails ==
    /\ ~ HistoryCallReenters
    /\ HistoryCallReturn.status = -1
    /\ ~ HistoryCallReturn.exited

\* the text of the line has the text of the argument at its start
StartsWith(line, arg) ==
    /\ Len(arg) <= Len(line)
    /\ \A j \in 1 .. Len(arg) : line[j] = arg[j]

(* C19: history with a numeric argument fetches the entry at that 1-based    *)
(* position; for every position out of range (0, and every N greater than    *)
(* the number of entries) it reports an error, returns a failure status and  *)
(* executes nothing.                                                         *)
C19_NumericHistory ==
    (HistoryCall /\ IsNumeric(HistoryArg)) =>
        LET N == atoi(HistoryArg)
        IN  IF N \in 1 .. Len(shellHistory)
            THEN HistoryCallReenters /\ HistoryCallLine = shellHistory[N]
            ELSE HistoryCallFails

(* C20: history with a non-numeric argument re-executes the most recently    *)
(* appended entry whose text starts with the argument; when no entry does,   *)
(* it reports an error, returns a failure status and executes nothing.       *)
C20_PrefixHistory ==
    (HistoryCall /\ ~ IsNumeric(HistoryArg)) =>
        LET hits == {i \in DOMAIN shellHistory : StartsWith(shellHistory[i], HistoryArg)}
        IN  IF hits = {}
            THEN HistoryCallFails
            ELSE /\ HistoryCallReenters
                 /\ \E i \in hits :
                       /\ \A j \in hits : j <= i
                       /\ HistoryCallLine = shellHistory[i]

\* 'a', 'a a', '!a': history a is in progress and the engine runs 'a a', the
\* later of the two lines that start with 'a'
C20_Witness ==
    /\ shellHistory = <<S_a, Join(<<S_a, S_a>>), S_banga>>
    /\ Len(stack) = 2
    /\ stack[1].pc = "call"
    /\ CurrentStage(stack[1]).args = <<S_history, S_a, NULL>>
    /\ Len(Top.chain) = 1
    /\ Top.chain[1].simpleCommands[1].args = <<S_a, S_a, NULL>>
    /\ Top.pc = "wait"

(***************************************************************************)
(* Re-entry of the engine by history, and the wait for a foreground child. *)
(***************************************************************************)
\* executeCommandChain returns to the call of history below it
ReentryReturns ==
    /\ Len(stack) >= 2
    /\ Len(stack') = Len(stack) - 1

(* C21: when the engine re-entered by a history lookup returns, the chain    *)
(* and the stage of the outer history invocation are intact and still owned  *)
(* by the outer caller, the history store holds the same entries in the same *)
(* order, and the standard streams of the interpreter are the ones it had.   *)
C21_ReentryKeepsState ==
    [][ReentryReturns =>
          LET d == Len(stack) - 1
          IN  /\ stack[d].pc = "call"
              /\ SubSeq(stack', 1, d - 1) = SubSeq(stack, 1, d - 1)
              /\ stack'[d].chain = stack[d].chain
              /\ CurrentStage(stack[d]).execute = "history"
              /\ shellHistory' = shellHistory
              /\ \A fd \in StdFds : fdt'[fd] = InitFdt[fd]]_vars

(* C22: for a foreground external stage executeProcess returns the exit      *)
(* status of the child of that stage, under every interleaving with the      *)
(* handler of SIGCHLD: the child is claimed by the waitpid of the parent.    *)
C22_ForegroundStatusIsChilds ==
    \A p \in DOMAIN children :
        (children[p].fg /\ LastStageForked(p)) =>
            /\ children[p].state = "reaped"
            /\ lastStage.status = children[p].code

(***************************************************************************)
(* The save slots at a restore.                                            *)
(***************************************************************************)
\* executeCommand is about to call a builtin that overrides its streams and
\* restores them: pwd, or history listing the store
RestoringCall ==
    /\ AtStage
    /\ \/ CurrentStage(Top).execute = "pwd"
       \/ CurrentStage(Top).execute = "history" /\ CurrentStage(Top).argc = 1
    /\ CurrentStage(Top).argc = 1

\* the table and the slots of that call when it reaches resetFD
AtRestore ==
    setUpFD(fdt, slots, CurrentStage(Top).inputFD, CurrentStage(Top).outputFD,
            CurrentStage(Top).stderrFD)

\* the frames of history calls in progress whose stage overrode a stream
ActiveOverrides ==
    {d \in DOMAIN stack :
        /\ stack[d].pc = "call"
        /\ \/ CurrentStage(stack[d]).inputFD # STDIN_FD
           \/ CurrentStage(stack[d]).outputFD # STDOUT_FD
           \/ CurrentStage(stack[d]).stderrFD # STDERR_FD}

(* C23: at most one stage's override of the standard streams is active at a  *)
(* time, and when a restore happens each save slot that is used holds the    *)
(* original stream of the interpreter.                                       *)
C23_SlotsHoldOriginalStreams ==
    /\ (RestoringCall /\ AtRestore.rc = 0) =>
          /\ ActiveOverrides = {}
          /\ AtRestore.slots.in # STDIN_FD =>
                /\ IsOpen(AtRestore.fdt, AtRestore.slots.in)
                /\ AtRestore.fdt[AtRestore.slots.in] = InitFdt[STDIN_FD]
          /\ AtRestore.slots.out # STDOUT_FD =>
                /\ IsOpen(AtRestore.fdt, AtRestore.slots.out)
                /\ AtRestore.fdt[AtRestore.slots.out] = InitFdt[STDOUT_FD]
          /\ AtRestore.slots.err # STDERR_FD =>
                /\ IsOpen(AtRestore.fdt, AtRestore.slots.err)
                /\ AtRestore.fdt[AtRestore.slots.err] = InitFdt[STDERR_FD]

(***************************************************************************)
(* A foreground pipeline of two stages and the capacity of its pipe.       *)
(***************************************************************************)
\* p is the child of the first stage of a foreground pipeline of two stages
FirstOfTwo(p) ==
    /\ children[p].fg
    /\ children[p].si = 1
    /\ children[p].wpipe # 0
    /\ children[p].line = Len(shellHistory)
    /\ Len(stack) >= children[p].depth
    /\ stack[children[p].depth].ci = children[p].ci
    /\ children[p].ci <= Len(stack[children[p].depth].chain)
    /\ CurrentCommand(stack[children[p].depth]).nSimpleCommands = 2

\* the program of p has more to write than the pipe holds
Overflows(p) == children[p].state = "running" /\ children[p].output > PipeBuf

\* the parent waits for the first stage of the c-th pipeline of the line, a
\* pipeline of two stages whose second stage writes to no pipe, and the
\* output of the first stage fits in the pipe
FitsWaiting(c) ==
    /\ Len(stack) = 1
    /\ Top.pc = "wait"
    /\ Top.ci = c
    /\ Top.si = 1
    /\ CurrentCommand(Top).nSimpleCommands = 2
    /\ ~ CurrentCommand(Top).background
    /\ WritesPipe(fdt, CurrentCommand(Top).simpleCommands[2]) = 0
    /\ children[Top.pid].wpipe # 0
    /\ children[Top.pid].output <= PipeBuf

(* C24: in a foreground pipeline of two stages whose first stage writes more *)
(* than the pipe holds the engine stalls for ever: the child stays in its    *)
(* write, the parent stays in its wait for that child, and the second stage  *)
(* is never launched; when the output of the first stage fits in the pipe,   *)
(* the pipeline runs to completion.                                          *)
C24_FullPipeStalls ==
    /\ [][\A p \in DOMAIN children :
             (FirstOfTwo(p) /\ Overflows(p)) =>
                 /\ Top.pc = "wait" /\ Top.pid = p
                 /\ children'[p].state = "running"
                 /\ stack' = stack
                 /\ mainpc' = mainpc
                 /\ DOMAIN children' = DOMAIN children]_vars
    /\ \A c \in 1 .. MaxInput :
          FitsWaiting(c) ~> (stack = <<>> \/ Top.ci > c)

\* 'a | a': the first stage has more to write than the pipe holds, the parent
\* waits for it and the second stage has no child
C24_Witness ==
    /\ shellHistory = <<Join(<<S_a, S_pipe, S_a>>)>>
    /\ Len(children) = 1
    /\ FirstOfTwo(1) /\ Overflows(1)
    /\ Top.pc = "wait" /\ Top.pid = 1

(***************************************************************************)
(* History references that resolve to themselves.                          *)
(***************************************************************************)
\* the text of the line up to its first blank
FirstWord(line) ==
    LET blanks == {i \in DOMAIN line : line[i] = " "}
    IN  IF blanks = {} THEN line
        ELSE SubSeq(line, 1, (CHOOSE i \in blanks : \A j \in blanks : i <= j) - 1)

\* the line is one word
Lone(line) == FirstWord(line) = line

IsRef(word) == Len(word) >= 2 /\ word[1] = "!"

\* the first stage of the line is a reference and nothing else: an operator
\* or the end of the line follows the word
RefLine(line) ==
    /\ IsRef(FirstWord(line))
    /\ \/ Lone(line)
       \/ line[Len(FirstWord(line)) + 2] \in {"|", ";", "&", ">", "<"}

\* the position in the store of the entry the first stage of the line refers
\* to, 0 when it is no reference or refers to no entry
Target(line) ==
    IF ~ RefLine(line) THEN 0
    ELSE LET arg == SubSeq(FirstWord(line), 2, Len(FirstWord(line)))
             hits == {i \in DOMAIN shellHistory : StartsWith(shellHistory[i], arg)}
         IN  IF IsNumeric(arg)
             THEN IF atoi(arg) \in DOMAIN shellHistory THEN atoi(arg) ELSE 0
             ELSE IF hits = {} THEN 0
             ELSE CHOOSE i \in hits : \A j \in hits : j <= i

\* the line main read last
CurrentLine == shellHistory[Len(shellHistory)]

\* the line main read and handed to the engine refers to its own entry
SelfRef ==
    /\ mainpc = "running"
    /\ Target(CurrentLine) = Len(shellHistory)

\* the line refers to an entry that refers to itself, the line and the entry
\* being the reference and nothing else
LoneSelfRef ==
    /\ mainpc = "running"
    /\ Target(CurrentLine) # 0
    /\ Target(shellHistory[Target(CurrentLine)]) = Target(CurrentLine)
    /\ Lone(CurrentLine)
    /\ Lone(shellHistory[Target(CurrentLine)])

\* a line of external commands: no reference and no pipe
NoRefNoPipe(line) == \A i \in DOMAIN line : line[i] \notin {"!", "|"}

\* following the references of lone lines from the line reaches, in at most
\* hops steps, a line of external commands
RECURSIVE Reaches(_, _)
Reaches(line, hops) ==
    IF NoRefNoPipe(line) THEN TRUE
    ELSE /\ hops > 0
         /\ Lone(line)
         /\ Target(line) # 0
         /\ Reaches(shellHistory[Target(line)], hops - 1)

\* the line is a lone reference whose references end at a line of external
\* commands, read by an interpreter that has its original streams
EndingRef ==
    /\ mainpc = "running"
    /\ IsRef(CurrentLine)
    /\ Reaches(CurrentLine, MaxDepth - 1)
    /\ \A fd \in StdFds : fdt[fd] = InitFdt[fd]

LineOf(d) ==
    IF d = 1 THEN CurrentLine
    ELSE historyLookup(CurrentStage(stack[d - 1]), shellHistory)

\* the token that ends pipeline k of a token array: its chaining operator (a
\* token that is not the file name of a redirection), or the end of the array
ClosingToken(tokens, k) ==
    LET L == Layout(tokens)
        hits == {i \in DOMAIN L : L[i].role = "chain" /\ L[i].pl = k}
    IN  IF hits = {} THEN NULL ELSE tokens[CHOOSE i \in hits : TRUE]

\* the runner of stage s of pipeline k of the frame has been invoked for sure:
\* the stage is in progress, or an earlier stage of the pipeline in progress,
\* or the first stage of an earlier pipeline
Invoked(f, k, s) ==
    \/ k < f.ci /\ s = 1
    \/ k = f.ci /\ s < f.si
    \/ k = f.ci /\ s = f.si /\ f.pc \in {"wait", "call"}

(* C26: the token that ended a pipeline (a chaining operator or the end of   *)
(* the input) is stored in the pipeline's chaining-operator record, the      *)
(* background flag is set if and only if that token is the background        *)
(* marker, and a stage is deferred-wait when its runner is invoked if it is  *)
(* a stage of a background pipeline, and never if it is one of a foreground  *)
(* pipeline.                                                                 *)
C26_ChainingOperatorRecorded ==
    \A d \in DOMAIN stack :
        LET tokens == tokenizeString(LineOf(d), " ")
            chain == stack[d].chain
        IN  \A k \in DOMAIN chain :
                /\ chain[k].chainingOperator = ClosingToken(tokens, k)
                /\ chain[k].background <=> (chain[k].chainingOperator = S_amp)
                /\ \A s \in DOMAIN chain[k].simpleCommands :
                      /\ ~ chain[k].background => chain[k].simpleCommands[s].noWait = 0
                      /\ (chain[k].background /\ Invoked(stack[d], k, s))
                            => chain[k].simpleCommands[s].noWait = 1

\* 'a & a': the first pipeline took '&' and its stage did not wait, the second
\* took the end of the line and the parent waits for its stage
C26_Witness ==
    /\ shellHistory = <<Join(<<S_a, S_amp, S_a>>)>>
    /\ Len(stack) = 1
    /\ Len(Top.chain) = 2
    /\ Top.chain[1].chainingOperator = S_amp /\ Top.chain[1].background
    /\ Top.chain[1].simpleCommands[1].noWait = 1
    /\ Top.chain[2].chainingOperator = NULL /\ ~ Top.chain[2].background
    /\ Top.chain[2].simpleCommands[1].noWait = 0
    /\ Top.ci = 2 /\ Top.pc = "wait"

(***************************************************************************)
(* The runner of a stage.                                                  *)
(***************************************************************************)
\* the runner the program name stands for
RunnerOf(name) ==
    CASE name = S_cd -> "cd"
      [] name = S_exit -> "exitShell"
      [] name = S_pwd -> "pwd"
      [] name = S_history -> "history"
      [] name = S_prompt -> "prompt"
      [] OTHER -> "executeProcess"

\* executeCommand calls the runner of the current stage
RunnerCalled == AtStage /\ launched' = launched + 1

(* C27: every committed stage has a runner, bound from its program name      *)
(* alone: cd, exit, pwd, history and prompt bind to their builtin, every     *)
(* other name to the runner of external programs; the call of a builtin      *)
(* creates no child, the call of the external runner forks one or fails.     *)
C27_RunnerBoundByName ==
    /\ [](\A d \in DOMAIN stack : \A k \in DOMAIN stack[d].chain :
            \A s \in DOMAIN stack[d].chain[k].simpleCommands :
                LET stage == stack[d].chain[k].simpleCommands[s]
                IN  /\ stage.commandName # NULL
                    /\ stage.commandName = stage.args[1]
                    /\ stage.execute = RunnerOf(stage.commandName))
    /\ [][RunnerCalled =>
             IF RunnerOf(CurrentStage(Top).commandName) = "executeProcess"
             THEN \/ Len(children') = Len(children) + 1
                  \/ children' = children /\ lastStage'.status = -1
             ELSE children' = children]_vars

\* 'cd ; a': cd ran in the interpreter without a child, and the parent waits
\* for the one child, that of a
C27_Witness ==
    /\ shellHistory = <<Join(<<S_cd, S_semi, S_a>>)>>
    /\ Len(stack) = 1
    /\ Top.chain[1].simpleCommands[1].execute = "cd"
    /\ Top.chain[2].simpleCommands[1].execute = "executeProcess"
    /\ Top.ci = 2 /\ Top.pc = "wait"
    /\ launched = 2
    /\ Len(children) = 1

(***************************************************************************)
(* C28: after k calls of pushArgs on a fresh stage the argument count is   *)
(* k, the argument list holds the k pushed words in push order followed by *)
(* the terminator, and the command name is the first pushed word; a later  *)
(* push leaves the command name as it is.                                  *)
(***************************************************************************)
PushedWords == SubSeq(ptokens, 1, pres.pushed)

C28_PushArgsRoundTrip ==
    /\ [](/\ pres.stage.argc = pres.pushed
          /\ pres.pushed = 0 =>
                pres.stage.args = <<>> /\ pres.stage.commandName = NULL
          /\ pres.pushed > 0 =>
                /\ pres.stage.args = PushedWords \o <<NULL>>
                /\ pres.stage.commandName = ptokens[1])
    /\ [][pres.pushed > 0 =>
            pres'.stage.commandName = pres.stage.commandName]_vars

C28_Witness ==
    /\ ptokens = <<S_a, S_f, S_pwd>>
    /\ pres.pushed = 3
    /\ pres.stage.argc = 3
    /\ pres.stage.commandName = S_a
    /\ pres.stage.args = <<S_a, S_f, S_pwd, NULL>>

(***************************************************************************)
(* C29: the redirection targets of a line, in every pipeline of it, are    *)
(* opened in the step that reads and parses the line, before any stage of  *)
(* the line is run: output and stderr targets exist afterwards, an input   *)
(* target existed before the line or is an output or stderr target named   *)
(* earlier in the line, and no later step makes a file or opens one.  A    *)
(* rejected line has made and truncated the files that its accepted        *)
(* beginnings make and truncate.                                           *)
(***************************************************************************)
LineRead == Len(shellHistory') = Len(shellHistory) + 1
TypedTokens == tokenizeString(shellHistory'[Len(shellHistory')], " ")
LineAccepted == LineRead /\ stack' # <<>>
LineRejected == LineRead /\ stack' = <<>>

\* the role of the operator that the file name at position i belongs to
OperatorOf(L, i) ==
    LET j == CHOOSE j \in 1 .. (i - 1) :
                /\ L[j].role \in {"out", "in", "err"}
                /\ \A m \in (j + 1) .. (i - 1) : L[m].role = "blank"
    IN  L[j].role

Targets(L, roles) ==
    {i \in DOMAIN L : L[i].role = "file" /\ OperatorOf(L, i) \in roles}

\* the descriptor that the stage of the target at position i holds for it
TargetFd(chain, L, i) ==
    LET simpleCommand == chain[L[i].pl].simpleCommands[L[i].st]
    IN  CASE OperatorOf(L, i) = "out" -> simpleCommand.outputFD
          [] OperatorOf(L, i) = "in" -> simpleCommand.inputFD
          [] OperatorOf(L, i) = "err" -> simpleCommand.stderrFD

FilesOpen(table) == {fd \in Fds : table[fd].kind = "file"}

TargetsOpenedByParse ==
    LineAccepted =>
        LET tokens == TypedTokens
            L == Layout(tokens)
        IN  /\ \A i \in Targets(L, {"out", "in", "err"}) :
                    LET fd == TargetFd(stack'[1].chain, L, i)
                    IN  /\ fd \in FilesOpen(fdt') \ FilesOpen(fdt)
                        /\ fdt'[fd].name = tokens[i]
            /\ \A i \in Targets(L, {"out", "err"}) : tokens[i] \in fs'
            /\ \A i \in Targets(L, {"in"}) :
                    \/ tokens[i] \in fs
                    \/ \E j \in Targets(L, {"out", "err"}) :
                            j < i /\ tokens[j] = tokens[i]
            /\ launched' = 0
            /\ children' = children

NothingOpenedLater ==
    ~ LineRead => fs' = fs /\ FilesOpen(fdt') \subseteq FilesOpen(fdt)

RejectedKeepsFiles ==
    LineRejected =>
        LET tokens == TypedTokens
            whole == parseTokens(tokens, fdt, fs, nextPipe)
        IN  \A k \in 1 .. (Len(tokens) - 1) :
                LET part == parseTokens(SubSeq(tokens, 1, k), fdt, fs, nextPipe)
                IN  ~ part.isNull =>
                        /\ part.fs \subseteq fs'
                        /\ part.truncated \subseteq whole.truncated

C29_TargetsOpenedByParse ==
    [][TargetsOpenedByParse /\ NothingOpenedLater /\ RejectedKeepsFiles]_vars

\* the statement without the files the parse itself makes: an input target
\* that did not exist before the line and is the output or stderr target of
\* an earlier pipeline of the line makes the line rejected
C29_InputOfEarlierOutputRejected ==
    [][LineRead =>
        LET tokens == TypedTokens
            L == Layout(tokens)
        IN  (\E i \in Targets(L, {"in"}), j \in Targets(L, {"out", "err"}) :
                /\ L[j].pl < L[i].pl
                /\ tokens[j] = tokens[i]
                /\ tokens[i] \notin fs)
            => stack' = <<>>]_vars

\* 'a > a ; a < a' is accepted: the parse has made a and opened it twice, and
\* no stage has run
C29_Witness ==
    /\ shellHistory = <<Join(<<S_a, S_gt, S_a, S_semi, S_a, S_lt, S_a>>)>>
    /\ stack # <<>>
    /\ S_a \in fs
    /\ launched = 0
    /\ stack[1].chain[1].simpleCommands[1].outputFD \in FilesOpen(fdt)
    /\ stack[1].chain[2].simpleCommands[1].inputFD \in FilesOpen(fdt)

(***************************************************************************)
(* C30: the interpreter closes no descriptor twice: when the engine closes *)
(* the redirected input and output of a builtin stage that returned 0,     *)
(* each of them is still open, the builtin's own override of the streams   *)
(* having left it so.                                                      *)
(***************************************************************************)
\* the current stage is a builtin other than history, and this step runs it
BuiltinRuns ==
    /\ AtStage
    /\ CurrentStage(Top).execute \notin {"executeProcess", "history"}
    /\ launched' = launched + 1

\* the input and output descriptors executeCommand closes after the stage
EngineCloses(simpleCommand) ==
    ({simpleCommand.inputFD} \ {STDIN_FD}) \cup ({simpleCommand.outputFD} \ {STDOUT_FD})

C30_DescriptorsClosedOnce ==
    [][BuiltinRuns =>
        LET simpleCommand == CurrentStage(MarkNoWait(Top))
            r == CallBuiltin(simpleCommand, fdt, slots, shellHistory)
        IN  (~ r.exited /\ r.status = 0) =>
                \A fd \in EngineCloses(simpleCommand) : IsOpen(r.fdt, fd)]_vars

(***************************************************************************)
(* C31: history with a reference that fetches a line returns 0 whatever    *)
(* becomes of the line: when the parser rejects it and when its chain ends *)
(* with a non-zero status.  The engine goes on with the next stage of the  *)
(* pipeline that holds the history stage, or with a result of 0 for the    *)
(* pipeline when that stage is its last.                                   *)
(***************************************************************************)
\* the fetched line was rejected: history returns in the step that calls it
RejectedReentry ==
    /\ HistoryCall
    /\ HistoryCallReenters
    /\ launched' = launched + 1
    /\ Len(stack') = Len(stack)

\* the frame f held the history stage that returned in this step and g is
\* what it has become
GoesOnAfter(f, g) ==
    /\ lastStage'.valid
    /\ lastStage'.status = 0
    /\ IF f.si < CurrentCommand(f).nSimpleCommands
       THEN g.ci = f.ci /\ g.si = f.si + 1 /\ g.pc = "run"
       ELSE g.ci = f.ci + 1 /\ g.lastStatus = 0
                /\ g.results = Append(f.results, 0)

C31_HistoryReturnsSuccess ==
    [][/\ RejectedReentry => GoesOnAfter(Top, stack'[Len(stack)])
       /\ ReentryReturns =>
            GoesOnAfter(stack[Len(stack) - 1], stack'[Len(stack) - 1])]_vars

\* 'a' and then '!1 | a': the program of the fetched line ended with 1, history
\* returned 0 and the engine is at the second stage of the pipeline
C31_Witness ==
    /\ shellHistory = <<S_a, Join(<<S_bang1, S_pipe, S_a>>)>>
    /\ Len(stack) = 1
    /\ Top.ci = 1 /\ Top.si = 2 /\ Top.pc = "run"
    /\ lastReturn.valid /\ lastReturn.status = 1
    /\ lastStage.valid /\ lastStage.status = 0 /\ lastStage.pid = -1

(***************************************************************************)
(* C32: main appends each line it reads to the history store once, be the  *)
(* line accepted or rejected and whatever its execution returns; the empty *)
(* line and the line 'exit' are never entries.  Nothing else changes the   *)
(* store while the interpreter lives: a line re-entered by history is not  *)
(* appended, and the entries keep their text and their order.  The entry   *)
(* is in the store when the chain of the line starts to run.               *)
(***************************************************************************)
\* main read a line that is neither empty nor 'exit'
MainReadsLine == mainpc = "prompt" /\ consumed' > consumed /\ mainpc' # "exited"

C32_HistoryGrowsByTopLevelLines ==
    /\ [](\A i \in DOMAIN shellHistory : shellHistory[i] \notin {S_empty, S_exit})
    /\ [][/\ MainReadsLine =>
                /\ Len(shellHistory') = Len(shellHistory) + 1
                /\ SubSeq(shellHistory', 1, Len(shellHistory)) = shellHistory
                /\ launched' = 0
          /\ (~ MainReadsLine /\ mainpc' # "exited") =>
                shellHistory' = shellHistory]_vars

\* 'a', the rejected '>', and '!1' were read; history runs 'a' again and the
\* store holds the three lines
C32_Witness ==
    /\ shellHistory = <<S_a, S_gt, S_bang1>>
    /\ Len(stack) = 2
    /\ stack[1].pc = "call"
    /\ Top.chain[1].simpleCommands[1].commandName = S_a

(***************************************************************************)
(* C33: when the wait of a foreground external stage takes a child that a  *)
(* signal ended, executeProcess returns 0 and the engine goes on with the  *)
(* next stage of the pipeline; when the handler of SIGCHLD took that child *)
(* first, the wait fails, executeProcess returns -1 and the pipeline ends  *)
(* with -1.                                                                *)
(***************************************************************************)
\* the wait of the current stage returns in this step, for a child that a
\* signal ended
WaitOfKilledReturns ==
    /\ Running /\ Top.pc = "wait"
    /\ stack' # stack
    /\ children[Top.pid].fg
    /\ children[Top.pid].sig # 0

PipelineEndsWith(f, g, status) ==
    /\ lastStage'.valid
    /\ lastStage'.status = status
    /\ g.ci = f.ci + 1
    /\ g.lastStatus = status

Terminator == Len(ptokens)

PassGoesOn ==
    /\ pres.result = "running"
    /\ Tok(ptokens, pres.idx) # NULL
    /\ pres'.result = "running"

ParseDone == pres.result # "running"

C34_ParseTerminates ==
    /\ [](/\ pres.idx \in 0 .. Terminator
          /\ \A i \in 0 .. (Terminator - 1) :
                SkipToFileName(ptokens, i) \in (i + 1) .. Terminator
          /\ ParseDone => pres = parseTokens(ptokens, InitFdt, InitFs, 1))
    /\ [][PassGoesOn => pres'.idx \in (pres.idx + 1) .. Terminator]_vars
    /\ <>ParseDone

\* 'f >': the search for the file name stopped on the terminator and the
\* line is rejected
C34_Witness ==
    /\ ptokens = <<S_f, S_gt>>
    /\ ParseDone
    /\ pres.isNull
    /\ pres.idx = Terminator

====
